---- MODULE Spec2Model ----
(***************************************************************************)
(* A model of github.com/addrummond/jsonstream: the byte-level scanner     *)
(* rawTokenize and the structural driver Parser.Tokenize (main, tokArray,  *)
(* tokObject), with the consumer's yield callback as the environment.      *)
(*                                                                         *)
(* Byte indices (pos, Start, End, lineStart) are 0-based as in the Go      *)
(* source; At(inp, i) reads inp[i].  A nil []byte is the value Nil, which  *)
(* differs from the empty, non-nil slice << >>.                            *)
(***************************************************************************)
EXTENDS Integers, Sequences, FiniteSets, TLC

VARIABLES
    inp,                  \* the input byte slice handed to Tokenize
    allowComments,        \* Parser.AllowComments
    allowTrailingCommas,  \* Parser.AllowTrailingCommas
    st,                   \* rawTokenizeState: pos, lineStart, line, nextMustBeSep
    pc,                   \* where the driver stands (which next() call is due)
    stack,                \* the open tokArray/tokObject invocations, innermost last
    mainI,                \* the loop counter i of main
    nt,                   \* the named result t of the next() invocation in progress
    haltedOnComment,      \* the flag of that name
    out,                  \* the tokens handed to the consumer's yield, in order
    errors,               \* Parser.errors
    raw,                  \* history: the tokens rawTokenize has returned
    stoppedAt,            \* history: the index in out of the first token yield returned false for (0: none)
    calledAfterStop,      \* history: yield was invoked after it returned false
    decodeErrors,         \* Parser.decodeErrors
    lastCall,             \* history: the last call of a decoding method, its argument and result
    wp,                   \* WithPaths(Tokenize(inp)): currentPath, the tokens ranged over, returned
    paired,               \* the TokenWithPath values handed to the consumer of WithPaths, in order
    elems,                \* the slice handed to SliceToPath
    path,                 \* the Path SliceToPath returned
    slice,                \* the slice PathToSlice returned for path
    rendered,             \* the text path.String() returned
    pathCalls             \* history: the path functions called so far

\* the state of the path functions
pathVars == <<wp, paired, elems, path, slice, rendered, pathCalls>>

vars == <<inp, allowComments, allowTrailingCommas, st, pc, stack, mainI, nt,
          haltedOnComment, out, errors, raw, stoppedAt, calledAfterStop,
          decodeErrors, lastCall, wp, paired, elems, path, slice, rendered, pathCalls>>

----------------------------------------------------------------------------
(* Kinds: the iota constants of the Kind enumeration.                      *)

isError == 536870912

ObjectStart == 0
ObjectEnd == 1
ArrayStart == 2
ArrayEnd == 3
String == 4
Number == 5
True == 6
False == 7
Null == 8
Comment == 9
ErrorTrailingInput == 10 + isError
ErrorUnexpectedEOF == 11 + isError
ErrorUnexpectedToken == 12 + isError
ErrorTrailingComma == 13 + isError
ErrorUnexpectedComma == 14 + isError
ErrorUnexpectedCharacter == 15 + isError
ErrorLeadingZerosNotPermitted == 16 + isError
ErrorExpectedDigitAfterDecimalPoint == 17 + isError
ErrorExpectedDigitFollowingEInNumber == 18 + isError
ErrorBadUnicodeEscape == 19 + isError
ErrorIllegalControlCharInsideString == 20 + isError
ErrorUTF8DecodingErrorInsideString == 21 + isError
colon == 22
comma == 23

\* k&isError != 0
IsError(k) == (k \div isError) % 2 = 1

----------------------------------------------------------------------------
(* Bytes.                                                                  *)

chTab == 9
chLF == 10
chCR == 13
chSpace == 32
chQuote == 34
chStar == 42
chPlus == 43
chComma == 44
chMinus == 45
chDot == 46
chSlash == 47
chZero == 48
chNine == 57
chColon == 58
chUpperA == 65
chUpperE == 69
chUpperF == 70
chLBracket == 91
chBackslash == 92
chRBracket == 93
chLowerA == 97
chLowerB == 98
chLowerE == 101
chLowerF == 102
chLowerL == 108
chLowerN == 110
chLowerR == 114
chLowerS == 115
chLowerT == 116
chLowerU == 117
chLBrace == 123
chRBrace == 125

Nil == <<-1>>
notNilEmptyByteSlice == << >>

At(s, i) == s[i + 1]
\* s[a:b]
Slice(s, a, b) == SubSeq(s, a + 1, b)
\* append(val, bs...): appending nothing to a nil slice leaves it nil
AppendBytes(val, bs) == IF val = Nil THEN (IF bs = << >> THEN Nil ELSE bs) ELSE val \o bs

IsDigit(b) == b >= chZero /\ b <= chNine

----------------------------------------------------------------------------
(* Tokens.                                                                 *)

ZeroToken ==
    [Line |-> 0, Col |-> 0, Start |-> 0, End |-> 0, Key |-> Nil, Kind |-> 0,
     Value |-> Nil, ErrorMsg |-> ""]

mkErr(errorKind, line, col, msg) ==
    [ZeroToken EXCEPT !.Kind = errorKind, !.Line = line, !.Col = col, !.ErrorMsg = msg]

\* the field-by-field assignment to *out of a non-error token
mkTok(kind, line, col, start, end, value) ==
    [Line |-> line, Col |-> col, Start |-> start, End |-> end, Key |-> Nil,
     Kind |-> kind, Value |-> value, ErrorMsg |-> ""]

\* The three ways rawTokenize returns: false; true with *out = addErr(...);
\* true with the fields of *out assigned.
ScanEOF(s) == [ok |-> FALSE, st |-> s, tok |-> ZeroToken, errs |-> << >>]
ScanErr(s, errorKind, line, col, msg) ==
    [ok |-> TRUE, st |-> s, tok |-> mkErr(errorKind, line, col, msg),
     errs |-> <<mkErr(errorKind, line, col, msg)>>]
ScanTok(s, tok) == [ok |-> TRUE, st |-> s, tok |-> tok, errs |-> << >>]

----------------------------------------------------------------------------
(* unicode/utf8, unicode/utf16 and unicode as the scanner uses them.       *)

RuneError == 65533
surr1 == 55296
surr2 == 56320
surr3 == 57344

\* utf8.DecodeRune(inp[pos:])
DecodeRune(s, pos) ==
    LET n == Len(s) - pos
        b0 == At(s, pos)
        bad == [r |-> RuneError, sz |-> 1]
    IN  IF n < 1 THEN [r |-> RuneError, sz |-> 0]
        ELSE IF b0 < 128 THEN [r |-> b0, sz |-> 1]
        ELSE IF b0 < 194 \/ b0 > 244 THEN bad
        ELSE
          LET size == IF b0 < 224 THEN 2 ELSE IF b0 < 240 THEN 3 ELSE 4
              lo == IF b0 = 224 THEN 160 ELSE IF b0 = 240 THEN 144 ELSE 128
              hi == IF b0 = 237 THEN 159 ELSE IF b0 = 244 THEN 143 ELSE 191
              Cont(b) == b >= 128 /\ b <= 191
          IN  IF n < size THEN bad
              ELSE IF At(s, pos + 1) < lo \/ At(s, pos + 1) > hi THEN bad
              ELSE IF size = 2
                   THEN [r |-> (b0 % 32) * 64 + (At(s, pos + 1) % 64), sz |-> 2]
              ELSE IF ~Cont(At(s, pos + 2)) THEN bad
              ELSE IF size = 3
                   THEN [r |-> (b0 % 16) * 4096 + (At(s, pos + 1) % 64) * 64
                               + (At(s, pos + 2) % 64), sz |-> 3]
              ELSE IF ~Cont(At(s, pos + 3)) THEN bad
              ELSE [r |-> (b0 % 8) * 262144 + (At(s, pos + 1) % 64) * 4096
                          + (At(s, pos + 2) % 64) * 64 + (At(s, pos + 3) % 64),
                    sz |-> 4]

\* the bytes utf8.AppendRune appends for r
EncodeRune(r) ==
    IF r < 0 \/ r > 1114111 \/ (r >= surr1 /\ r < surr3) THEN <<239, 191, 189>>
    ELSE IF r < 128 THEN <<r>>
    ELSE IF r < 2048 THEN <<192 + (r \div 64), 128 + (r % 64)>>
    ELSE IF r < 65536
         THEN <<224 + (r \div 4096), 128 + ((r \div 64) % 64), 128 + (r % 64)>>
    ELSE <<240 + (r \div 262144), 128 + ((r \div 4096) % 64),
           128 + ((r \div 64) % 64), 128 + (r % 64)>>

\* unicode.IsControl
IsControl(r) == (r >= 0 /\ r < 32) \/ (r >= 127 /\ r < 160)

\* utf16.IsSurrogate
IsSurrogate(r) == r >= surr1 /\ r < surr3

\* utf16.Decode of the two code units r1, r2, as a sequence of runes
utf16Decode2(r1, r2) ==
    IF r1 >= surr1 /\ r1 < surr2 /\ r2 >= surr2 /\ r2 < surr3
    THEN <<(r1 - surr1) * 1024 + (r2 - surr2) + 65536>>
    ELSE <<(IF IsSurrogate(r1) THEN RuneError ELSE r1),
           (IF IsSurrogate(r2) THEN RuneError ELSE r2)>>

hexVal(d) ==
    IF d >= chZero /\ d <= chNine THEN d - chZero
    ELSE IF d >= chLowerA /\ d <= chLowerF THEN d - chLowerA + 10
    ELSE IF d >= chUpperA /\ d <= chUpperF THEN d - chUpperA + 10
    ELSE -1

----------------------------------------------------------------------------
(* rawTokenize.  s is the input, t the rawTokenizeState on entry of the    *)
(* step modelled; each operator returns what rawTokenize returns from      *)
(* there: ok, the state left behind, the token written to *out, and the    *)
(* tokens addErr appended to Parser.errors.                                *)

isSeparator(b) ==
    b \in {chSpace, chCR, chLF, chTab, chSlash, chColon, chComma, chLBracket,
           chRBracket, chLBrace, chRBrace}

\* wsLoop with the line starting on the byte after the LF
RECURSIVE wsLoop_lineStartAfterLF(_, _)
wsLoop_lineStartAfterLF(s, t) ==
    LET c == At(s, t.pos)
    IN  IF c \in {chLF, chSpace, chCR, chTab}
        THEN LET t1 == IF c = chLF
                       THEN [t EXCEPT !.line = @ + 1, !.lineStart = t.pos + 1, !.pos = @ + 1]
                       ELSE [t EXCEPT !.pos = @ + 1]
             IN  IF t1.pos >= Len(s) THEN t1 ELSE wsLoop_lineStartAfterLF(s, t1)
        ELSE t

\* wsLoop: the state where the loop stops (at a non-blank byte, or at the end)
RECURSIVE wsLoop(_, _)
wsLoop(s, t) ==
    LET c == At(s, t.pos)
    IN  IF c \in {chLF, chSpace, chCR, chTab}
        THEN LET t1 == IF c = chLF
                       THEN [t EXCEPT !.line = @ + 1, !.lineStart = t.pos, !.pos = @ + 1]
                       ELSE [t EXCEPT !.pos = @ + 1]
             IN  IF t1.pos >= Len(s) THEN t1 ELSE wsLoop(s, t1)
        ELSE t

\* the loop of case '*': t.pos is the byte the last iteration stopped on
RECURSIVE blockComment(_, _, _, _, _)
blockComment(s, t, start, startLine, startCol) ==
    LET p == t.pos + 1
    IN  IF p >= Len(s)
        THEN ScanErr([t EXCEPT !.pos = p], ErrorUnexpectedEOF, t.line,
                     p - t.lineStart + 1, "Unexpected EOF inside comment")
        ELSE IF At(s, p) = chLF
        THEN blockComment(s, [t EXCEPT !.line = @ + 1, !.lineStart = p, !.pos = p + 1],
                          start, startLine, startCol)
        ELSE IF At(s, p) = chStar
        THEN IF p + 1 >= Len(s)
             THEN ScanErr([t EXCEPT !.pos = p + 1], ErrorUnexpectedEOF, t.line,
                          (p + 1) - t.lineStart + 1,
                          "Unexpected EOF inside /* ... */ comment")
             ELSE IF At(s, p + 1) = chSlash
             THEN ScanTok([t EXCEPT !.pos = p + 2],
                          mkTok(Comment, startLine, startCol, start, p + 1,
                                Slice(s, start, p + 2)))
             ELSE blockComment(s, [t EXCEPT !.pos = p + 1], start, startLine, startCol)
        ELSE blockComment(s, [t EXCEPT !.pos = p], start, startLine, startCol)

\* the loop of case '/'
RECURSIVE lineComment(_, _, _, _, _)
lineComment(s, t, start, startLine, startCol) ==
    LET p == t.pos + 1
    IN  IF p >= Len(s)
        THEN ScanErr([t EXCEPT !.pos = p], ErrorUnexpectedEOF, t.line,
                     p - t.lineStart + 1, "Unexpected EOF inside // comment")
        ELSE IF At(s, p) = chLF
        THEN ScanTok([t EXCEPT !.lineStart = p, !.pos = p + 1, !.line = @ + 1],
                     mkTok(Comment, startLine, startCol, start, p - 1, Slice(s, start, p)))
        ELSE lineComment(s, [t EXCEPT !.pos = p], start, startLine, startCol)

\* case '/'
scanSlash(s, t) ==
    LET start == t.pos
        startCol == t.pos - t.lineStart + 1
        p == t.pos + 1
    IN  IF p >= Len(s)
        THEN ScanErr([t EXCEPT !.pos = p], ErrorUnexpectedCharacter, t.line,
                     p - t.lineStart + 1, "Unexpected '/'")
        ELSE IF At(s, p) = chStar
        THEN blockComment(s, [t EXCEPT !.pos = p], start, t.line, startCol)
        ELSE IF At(s, p) = chSlash
        THEN lineComment(s, [t EXCEPT !.pos = p], start, t.line, startCol)
        ELSE ScanErr([t EXCEPT !.pos = p + 1], ErrorUnexpectedToken, t.line,
                     (p + 1) - t.lineStart, "Unexpected '/'")

\* case ':', ',', '[', '{', ']', '}'
scanPunct(s, t, kind) ==
    ScanTok([t EXCEPT !.pos = @ + 1],
            mkTok(kind, t.line, t.pos - t.lineStart + 1, t.pos, t.pos, Nil))

\* case 't', 'f', 'n': rest is the literal after its first byte
scanLiteral(s, t, rest, kind, errCol, msg) ==
    LET n == Len(rest)
        matches == /\ t.pos + n < Len(s)
                   /\ \A i \in 1..n : At(s, t.pos + i) = rest[i]
    IN  IF ~matches
        THEN ScanErr([t EXCEPT !.pos = @ + 1], ErrorUnexpectedCharacter, t.line, errCol, msg)
        ELSE ScanTok([t EXCEPT !.pos = @ + n + 1, !.nextMustBeSep = TRUE],
                     mkTok(kind, t.line, t.pos - t.lineStart + 1, t.pos, t.pos + n, Nil))

\* for pos < len(inp) && inp[pos] is a digit { pos++ }
RECURSIVE skipDigits(_, _)
skipDigits(s, p) == IF p < Len(s) /\ IsDigit(At(s, p)) THEN skipDigits(s, p + 1) ELSE p

\* leadingZero taking every numeral that starts with 0 for one with leading zeros
leadingZero_anyZero(s, firstDigitI) == At(s, firstDigitI) = chZero

leadingZero(s, firstDigitI) ==
    /\ At(s, firstDigitI) = chZero
    /\ firstDigitI + 1 < Len(s)
    /\ IsDigit(At(s, firstDigitI + 1))

\* numberToken with End set to the position after the numeral
numberToken_endPastNumeral(s, t, start, firstDigitI, p) ==
    LET tok == mkTok(Number, t.line, start - t.lineStart + 1, start, p,
                     Slice(s, start, p))
    IN  ScanTok([t EXCEPT !.pos = p, !.nextMustBeSep = TRUE],
                IF leadingZero(s, firstDigitI)
                THEN [tok EXCEPT !.Kind = ErrorLeadingZerosNotPermitted,
                                 !.ErrorMsg = "Leading zeros not permitted in numbers"]
                ELSE tok)

\* the end of case '-', '0'..'9': p is the position after the numeral
numberToken(s, t, start, firstDigitI, p) ==
    LET tok == mkTok(Number, t.line, start - t.lineStart + 1, start, p - 1,
                     Slice(s, start, p))
    IN  ScanTok([t EXCEPT !.pos = p, !.nextMustBeSep = TRUE],
                IF leadingZero(s, firstDigitI)
                THEN [tok EXCEPT !.Kind = ErrorLeadingZerosNotPermitted,
                                 !.ErrorMsg = "Leading zeros not permitted in numbers"]
                ELSE tok)

\* the exponent part: p is the position after the integer and fraction parts
scanExponent(s, t, start, firstDigitI, p) ==
    IF p < Len(s) /\ At(s, p) \in {chLowerE, chUpperE}
    THEN LET p1 == p + 1
         IN  IF p1 >= Len(s)
             THEN ScanErr([t EXCEPT !.pos = p1], ErrorUnexpectedEOF, t.line,
                          p1 - t.lineStart + 1, "Unexpected EOF")
             ELSE LET p2 == IF At(s, p1) \in {chPlus, chMinus} THEN p1 + 1 ELSE p1
                  IN  IF p2 >= Len(s)
                      THEN ScanErr([t EXCEPT !.pos = p2], ErrorUnexpectedEOF, t.line,
                                   p2 - t.lineStart + 1, "Unexpected EOF")
                      ELSE IF ~IsDigit(At(s, p2))
                      THEN ScanErr([t EXCEPT !.pos = p2 + 1],
                                   ErrorExpectedDigitFollowingEInNumber, t.line,
                                   (p2 + 1) - t.lineStart,
                                   "Expected digit following 'e' in number")
                      ELSE numberToken(s, t, start, firstDigitI, skipDigits(s, p2 + 1))
    ELSE numberToken(s, t, start, firstDigitI, p)

\* from firstDigitI on
scanDigits(s, t, start, firstDigitI) ==
    LET p == skipDigits(s, firstDigitI + 1)
    IN  IF p < Len(s) /\ At(s, p) = chDot
        THEN IF p + 1 >= Len(s) \/ ~IsDigit(At(s, p + 1))
             THEN ScanErr([t EXCEPT !.pos = p + 2], ErrorExpectedDigitAfterDecimalPoint,
                          t.line, (p + 2) - t.lineStart,
                          "Expected digit after '.' in number")
             ELSE scanExponent(s, t, start, firstDigitI, skipDigits(s, p + 2))
        ELSE scanExponent(s, t, start, firstDigitI, p)

\* case '-', '0', ..., '9'
scanNumber(s, t) ==
    IF At(s, t.pos) = chMinus
    THEN LET p == t.pos + 1
         IN  IF p >= Len(s)
             THEN ScanErr([t EXCEPT !.pos = p], ErrorUnexpectedEOF, t.line,
                          p - t.lineStart + 1, "Unexpected EOF")
             ELSE IF ~IsDigit(At(s, p))
             THEN ScanErr([t EXCEPT !.pos = p + 1], ErrorUnexpectedCharacter, t.line,
                          (p + 1) - t.lineStart, "Unexpected char after '-'")
             ELSE scanDigits(s, t, t.pos, p)
    ELSE scanDigits(s, t, t.pos, t.pos)

\* val = utf8.AppendRune(val, r)
AppendRune(val, r) == AppendBytes(val, EncodeRune(r))

\* case 'u' of an escape: p is the position of the 'u', val the value so far
scanUnicodeEscape(s, t, p, val) ==
    IF p + 4 >= Len(s)
    THEN [done |-> TRUE,
          res |-> ScanErr([t EXCEPT !.pos = p], ErrorUnexpectedEOF, t.line,
                          p + 4 - t.lineStart + 1, "Unexpected EOF")]
    ELSE
      LET d1 == hexVal(At(s, p + 1))
          d2 == hexVal(At(s, p + 2))
          d3 == hexVal(At(s, p + 3))
          d4 == hexVal(At(s, p + 4))
          runeVal == d1 * 16 * 16 * 16 + d2 * 16 * 16 + d3 * 16 + d4
      IN  IF d1 = -1 \/ d2 = -1 \/ d3 = -1 \/ d4 = -1
          THEN [done |-> TRUE,
                res |-> ScanErr([t EXCEPT !.pos = p + 5], ErrorBadUnicodeEscape, t.line,
                                (p + 5) - 5 - t.lineStart + 1,
                                "Bad '\\uXXXX' escape in string")]
          ELSE IF /\ IsSurrogate(runeVal)
                  /\ p + 10 < Len(s)
                  /\ At(s, p + 5) = chBackslash
                  /\ At(s, p + 6) = chLowerU
          THEN
            LET d21 == hexVal(At(s, p + 7))
                d22 == hexVal(At(s, p + 8))
                d23 == hexVal(At(s, p + 9))
                d24 == hexVal(At(s, p + 10))
                rune2Val == d21 * 16 * 16 * 16 + d22 * 16 * 16 + d23 * 16 + d24
                runes == utf16Decode2(runeVal, rune2Val)
            IN  IF d21 = -1 \/ d22 = -1 \/ d23 = -1 \/ d24 = -1
                THEN [done |-> TRUE,
                      res |-> ScanErr([t EXCEPT !.pos = p + 11], ErrorBadUnicodeEscape,
                                      t.line, (p + 11) - 11 + 7 - t.lineStart + 1,
                                      "Bad '\\uXXXX' escape in string")]
                ELSE IF IsSurrogate(rune2Val)
                THEN [done |-> FALSE, pos |-> p + 6 + 5,
                      val |-> IF Len(runes) = 1
                              THEN AppendRune(val, runes[1])
                              ELSE AppendRune(AppendRune(val, runes[1]), runes[2])]
                ELSE [done |-> FALSE, pos |-> p + 5, val |-> AppendRune(val, runeVal)]
          ELSE [done |-> FALSE, pos |-> p + 5, val |-> AppendRune(val, runeVal)]

\* the byte an escape of one letter stands for, or -1
simpleEscape(b) ==
    IF b \in {chQuote, chBackslash, chSlash} THEN b
    ELSE IF b = chLowerB THEN 8
    ELSE IF b = chLowerF THEN 12
    ELSE IF b = chLowerN THEN 10
    ELSE IF b = chLowerR THEN 13
    ELSE IF b = chLowerT THEN 9
    ELSE -1

\* the rune and size the string body reads at pos (ASCII fast path included)
stringRune(s, pos) ==
    IF At(s, pos) < 128 THEN [r |-> At(s, pos), sz |-> 1] ELSE DecodeRune(s, pos)

\* the check that rejects a rune read raw inside a string as a control character
illegalControl(r) == IsControl(r) /\ r # 127

\* the check that takes a rune read raw inside a string for a decoding failure
decodingFailed(r) == r = RuneError

\* the loop of case '"': t.pos is the next byte of the body
RECURSIVE stringLoop(_, _, _, _, _)
stringLoop(s, t, start, val, canUseInpSlice) ==
    IF t.pos >= Len(s)
    THEN ScanErr(t, ErrorUnexpectedEOF, t.line, t.pos - t.lineStart + 1,
                 "Unexpected EOF in string")
    ELSE IF At(s, t.pos) = chQuote
    THEN ScanTok([t EXCEPT !.pos = @ + 1],
                 mkTok(String, t.line, start - t.lineStart + 1, start, t.pos,
                       IF canUseInpSlice THEN Slice(s, start + 1, t.pos) ELSE val))
    ELSE IF At(s, t.pos) = chBackslash
    THEN
      LET val1 == IF canUseInpSlice THEN AppendBytes(val, Slice(s, start + 1, t.pos))
                  ELSE val
          p == t.pos + 1
      IN  IF p >= Len(s)
          THEN ScanErr([t EXCEPT !.pos = p], ErrorUnexpectedEOF, t.line,
                       p - t.lineStart + 1, "Unexpected EOF in string")
          ELSE IF simpleEscape(At(s, p)) # -1
          THEN stringLoop(s, [t EXCEPT !.pos = p + 1], start,
                          AppendBytes(val1, <<simpleEscape(At(s, p))>>), FALSE)
          ELSE IF At(s, p) = chLowerU
          THEN LET u == scanUnicodeEscape(s, t, p, val1)
               IN  IF u.done THEN u.res
                   ELSE stringLoop(s, [t EXCEPT !.pos = u.pos], start, u.val, FALSE)
          ELSE ScanErr([t EXCEPT !.pos = p + 1], ErrorUnexpectedCharacter, t.line,
                       (p + 1) - t.lineStart,
                       "Unexpected character after '\\' in string")
    ELSE
      LET d == stringRune(s, t.pos)
      IN  IF illegalControl(d.r)
          THEN ScanErr([t EXCEPT !.pos = @ + d.sz], ErrorIllegalControlCharInsideString,
                       t.line, t.pos - t.lineStart + 1,
                       "Illegal control char inside string")
          ELSE IF decodingFailed(d.r)
          THEN IF d.sz = 0
               THEN ScanErr(t, ErrorUnexpectedEOF, t.line, t.pos - t.lineStart + 1,
                            "Unexpected EOF inside string")
               ELSE ScanErr([t EXCEPT !.pos = @ + d.sz],
                            ErrorUTF8DecodingErrorInsideString, t.line,
                            t.pos - t.lineStart + 1,
                            "UTF-8 decoding error inside string")
          ELSE stringLoop(s, [t EXCEPT !.pos = @ + (IF d.sz > 1 THEN d.sz ELSE 1)], start,
                          IF ~canUseInpSlice
                          THEN AppendBytes(val, Slice(s, t.pos, t.pos + d.sz))
                          ELSE val,
                          canUseInpSlice)

\* the default case of the switch on inp[st.pos]
scanOther(s, t) ==
    LET d == DecodeRune(s, t.pos)
        sz == IF d.sz > 1 THEN d.sz ELSE 1
    IN  ScanErr([t EXCEPT !.pos = @ + sz], ErrorUnexpectedCharacter, t.line,
                (t.pos + sz) - sz - t.lineStart + 1,
                "Unexpected char '" \o ToString(d.r) \o "'")

\* the switch on inp[st.pos] after the blanks
scanToken(s, t) ==
    LET c == At(s, t.pos)
        startCol == t.pos - t.lineStart + 1
    IN  CASE c = chSlash -> scanSlash(s, t)
          [] c = chColon -> scanPunct(s, t, colon)
          [] c = chComma -> scanPunct(s, t, comma)
          [] c = chLBracket -> scanPunct(s, t, ArrayStart)
          [] c = chLBrace -> scanPunct(s, t, ObjectStart)
          [] c = chRBracket -> scanPunct(s, t, ArrayEnd)
          [] c = chRBrace -> scanPunct(s, t, ObjectEnd)
          [] c = chLowerT ->
                scanLiteral(s, t, <<chLowerR, chLowerU, chLowerE>>, True,
                            (t.pos + 1) - t.lineStart, "Unexpected 't'")
          [] c = chLowerF ->
                scanLiteral(s, t, <<chLowerA, chLowerL, chLowerS, chLowerE>>, False,
                            startCol, "Unexpected 'f'")
          [] c = chLowerN ->
                scanLiteral(s, t, <<chLowerU, chLowerL, chLowerL>>, Null,
                            startCol, "Unexpected 'n'")
          [] c = chMinus \/ IsDigit(c) -> scanNumber(s, t)
          [] c = chQuote -> stringLoop(s, [t EXCEPT !.pos = @ + 1], t.pos, Nil, TRUE)
          [] OTHER -> scanOther(s, t)

\* separatorError without its st.pos++: the offending byte is reported and
\* left in place
separatorError_staysPut(t) ==
    ScanErr(t, ErrorUnexpectedCharacter, t.line, t.pos - t.lineStart + 1,
            "Unexpected character")

\* the need-separator check at the head of rawTokenize: the offending byte is
\* reported and skipped, and the flag is left as it is
separatorError(t) ==
    ScanErr([t EXCEPT !.pos = @ + 1], ErrorUnexpectedCharacter, t.line,
            (t.pos + 1) - 1 - t.lineStart + 1, "Unexpected character")

rawTokenize(s, t) ==
    IF t.pos >= Len(s) THEN ScanEOF(t)
    ELSE IF t.nextMustBeSep /\ ~isSeparator(At(s, t.pos)) THEN separatorError(t)
    ELSE LET w == wsLoop(s, [t EXCEPT !.nextMustBeSep = FALSE])
         IN  IF w.pos >= Len(s) THEN ScanEOF(w) ELSE scanToken(s, w)

----------------------------------------------------------------------------
(* Parser.Tokenize.  The driver is cut at its calls of next(): pc names    *)
(* the call that is due, and one action runs from one rawTokenize call of  *)
(* that next() up to the following call of next() (or to the return).      *)
(* Every action makes at most one call of yield; cont is what the          *)
(* consumer's yield returns to it.                                         *)

\* the consumer's yield has returned false
stopped == stoppedAt # 0

newFrame(fn) ==
    [fn |-> fn, afterCommaLine |-> -1, afterCommaCol |-> -1, keyVal |-> Nil,
     tLine |-> 0, tCol |-> 0, pend |-> ZeroToken]

Top(stk) == stk[Len(stk)]
SetTop(stk, f) == [stk EXCEPT ![Len(stk)] = f]

\* where control goes: the whole iteration returns,
Done == [pc |-> "done", stack |-> << >>, mainI |-> mainI]
\* the driver goes on to the next() call at loc,
Goto(loc, stk) == [pc |-> loc, stack |-> stk, mainI |-> mainI]
\* main goes round its loop (i++),
MainLoop == [pc |-> "main", stack |-> << >>, mainI |-> mainI + 1]
\* the innermost tokArray/tokObject returns true to its caller
Return(stk) ==
    LET rest == SubSeq(stk, 1, Len(stk) - 1)
    IN  IF rest = << >> THEN MainLoop
        ELSE Goto(IF Top(rest).fn = "arr" THEN "arr_sep" ELSE "obj_sep", rest)

\* What a handler does with the token next() gave it: the token it yields (if
\* any), what main's yieldErr appends to Parser.errors, and where control goes
\* when yield returns true (or is not called), and when it returns false.
Yield(tok, onTrue) ==
    [yield |-> <<tok>>, perr |-> << >>, onTrue |-> onTrue, onFalse |-> Done]
Silent(to) == [yield |-> << >>, perr |-> << >>, onTrue |-> to, onFalse |-> to]

\* yieldErr with its test of haltedOnComment the wrong way round
yieldErr_inverted(halted, errorKind, line, col, msg, onTrue, onFalse) ==
    IF halted
    THEN [yield |-> <<mkErr(errorKind, line, col, msg)>>, perr |-> << >>,
          onTrue |-> onTrue, onFalse |-> onFalse]
    ELSE Silent(onTrue)

\* yieldErr of tokArray and tokObject
yieldErr(halted, errorKind, line, col, msg, onTrue, onFalse) ==
    IF ~halted
    THEN [yield |-> <<mkErr(errorKind, line, col, msg)>>, perr |-> << >>,
          onTrue |-> onTrue, onFalse |-> onFalse]
    ELSE Silent(onTrue)

\* yieldErr of main
mainYieldErr(halted, errorKind, line, col, msg, onTrue, onFalse) ==
    IF ~halted
    THEN [yield |-> <<mkErr(errorKind, line, col, msg)>>,
          perr |-> <<mkErr(errorKind, line, col, msg)>>,
          onTrue |-> onTrue, onFalse |-> onFalse]
    ELSE Silent(onTrue)

\* the case list of the scalar kinds with ObjectEnd slipped into it
isScalarKind_withObjectEnd(k) ==
    k \in {String, Number, True, False, Null, ErrorLeadingZerosNotPermitted, ObjectEnd}

isScalarKind(k) ==
    k \in {String, Number, True, False, Null, ErrorLeadingZerosNotPermitted}

\* trailingCommaDue without its look at the option
trailingCommaDue_ignoresOption(f) == f.afterCommaLine # -1

\* afterCommaLine != -1 && !p.AllowTrailingCommas
trailingCommaDue(f) == f.afterCommaLine # -1 /\ ~allowTrailingCommas

\* afterCommaLine = t.Line; afterCommaCol = t.Col
setAfterComma(f, t) == [f EXCEPT !.afterCommaLine = t.Line, !.afterCommaCol = t.Col]

\* mainTrailing without its return: main reports the token and goes on
mainTrailing_goesOn(t, halted) ==
    mainYieldErr(halted, ErrorTrailingInput, t.Line, t.Col, "Trailing input",
                 MainLoop, Done)

\* the body of main's loop from the return of next()
mainTrailing(t, halted) ==
    mainYieldErr(halted, ErrorTrailingInput, t.Line, t.Col, "Trailing input", Done, Done)

mainHandler(t, ok, halted) ==
    IF ~ok THEN Silent(Done)
    ELSE IF mainI > 0 THEN mainTrailing(t, halted)
    ELSE IF t.Kind = ObjectStart THEN Yield(t, Goto("obj_key", <<newFrame("obj")>>))
    ELSE IF t.Kind = ArrayStart THEN Yield(t, Goto("arr_val", <<newFrame("arr")>>))
    ELSE IF t.Kind \in {ObjectEnd, ArrayEnd, comma, colon}
    THEN mainYieldErr(halted, ErrorUnexpectedToken, t.Line, t.Col, "Unexpected token",
                      MainLoop, Done)
    ELSE Yield(t, MainLoop)

\* a closing bracket where a value or a key may stand: the trailing-comma check
closeContainer(t, halted, closePc) ==
    IF trailingCommaDue(Top(stack)) /\ ~halted
    THEN yieldErr(halted, ErrorTrailingComma, Top(stack).afterCommaLine,
                  Top(stack).afterCommaCol, "Trailing ','",
                  Goto(closePc, SetTop(stack, [Top(stack) EXCEPT !.pend = t])), Done)
    ELSE Yield(t, Return(stack))

\* tokArray from the first next() of its loop
arrValHandler(valtok, ok, halted) ==
    IF ~ok
    THEN yieldErr(halted, ErrorUnexpectedEOF, valtok.Line, valtok.Col,
                  "Unexpected EOF (expected closing ']')", Done, Done)
    ELSE IF valtok.Kind = ArrayEnd THEN closeContainer(valtok, halted, "arr_close")
    ELSE IF valtok.Kind = ArrayStart
    THEN Yield(valtok, Goto("arr_val", Append(stack, newFrame("arr"))))
    ELSE IF valtok.Kind = ObjectStart
    THEN Yield(valtok, Goto("obj_key", Append(stack, newFrame("obj"))))
    ELSE IF isScalarKind(valtok.Kind) THEN Yield(valtok, Goto("arr_sep", stack))
    ELSE IF valtok.Kind = comma
    THEN yieldErr(halted, ErrorUnexpectedComma, valtok.Line, valtok.Col,
                  "Unexpected ',' inside array",
                  Goto("arr_val", SetTop(stack, setAfterComma(Top(stack), valtok))), Done)
    ELSE yieldErr(halted, ErrorUnexpectedToken, valtok.Line, valtok.Col,
                  "Unexpected token inside array", Goto("arr_sep", stack), Done)

\* tokArray from the second next() of its loop
arrSepHandler(t, ok, halted) ==
    IF ~ok
    THEN yieldErr(halted, ErrorUnexpectedEOF, t.Line, t.Col,
                  "Unexpected EOF inside array", Done, Done)
    ELSE IF t.Kind = ArrayEnd THEN Yield(t, Return(stack))
    ELSE IF t.Kind # comma
    THEN yieldErr(halted, ErrorUnexpectedToken, t.Line, t.Col,
                  "Unexpected token inside array (expecting ',')",
                  Goto("arr_val", SetTop(stack, setAfterComma(Top(stack), t))), Done)
    ELSE Silent(Goto("arr_val", SetTop(stack, setAfterComma(Top(stack), t))))

\* the key a member's value is stamped with: keytok.Value, or the empty key
\* set for recovery when keytok is no String
keyOf(keytok) == IF keytok.Kind # String THEN notNilEmptyByteSlice ELSE keytok.Value

\* memberKey with the empty key taken for no key
memberKey_dropsEmptyKey(keyVal) == IF keyVal = << >> THEN Nil ELSE keyVal

\* valtok.Key = keytok.Value; if valtok.Key == nil { valtok.Key = notNilEmptyByteSlice }
memberKey(keyVal) == IF keyVal = Nil THEN notNilEmptyByteSlice ELSE keyVal

\* badKey giving up after its error: tokObject returns false whatever
\* yield returned
badKey_givesUp(keytok, halted, onTrue) ==
    yieldErr(halted,
             IF keytok.Kind = comma THEN ErrorUnexpectedComma ELSE ErrorUnexpectedToken,
             keytok.Line, keytok.Col, "Unexpected token inside object (expecting key)",
             Done, Done)

\* the error for a token that is no key, by its kind
badKey(keytok, halted, onTrue) ==
    IF keytok.Kind = comma
    THEN yieldErr(halted, ErrorUnexpectedComma, keytok.Line, keytok.Col,
                  "Unexpected ',' inside object (expecting key)", onTrue, Done)
    ELSE yieldErr(halted, ErrorUnexpectedToken, keytok.Line, keytok.Col,
                  "Unexpected token inside object (expecting key)", onTrue, Done)

\* tokObject from the first next() of its loop
objKeyHandler(keytok, ok, halted) ==
    IF ~ok
    THEN yieldErr(halted, ErrorUnexpectedEOF, keytok.Line, keytok.Col,
                  "Unexpected EOF (expected closing '}')", Done, Done)
    ELSE IF keytok.Kind = ObjectEnd THEN closeContainer(keytok, halted, "obj_close")
    ELSE IF keytok.Kind # String
    THEN badKey(keytok, halted,
                Goto("obj_colon", SetTop(stack, [Top(stack) EXCEPT !.keyVal = keyOf(keytok)])))
    ELSE Silent(Goto("obj_colon", SetTop(stack, [Top(stack) EXCEPT !.keyVal = keyOf(keytok)])))

\* tokObject from the next() that expects ':'
objColonHandler(t, ok, halted) ==
    LET stk == SetTop(stack, [Top(stack) EXCEPT !.tLine = t.Line, !.tCol = t.Col])
    IN  IF ~ok \/ t.Kind # colon
        THEN yieldErr(halted, ErrorUnexpectedToken, t.Line, t.Col,
                      "Unexpected token inside object (expecting ':')",
                      Goto("obj_val", stk), Done)
        ELSE Silent(Goto("obj_val", stk))

\* the position tokObject gives the errors of its value step: that of its t
valueErrPos(f, valtok) == [Line |-> f.tLine, Col |-> f.tCol]

\* tokObject from the next() that expects the member's value
objValHandler(valtok0, ok, halted) ==
    LET f == Top(stack)
        valtok == [valtok0 EXCEPT !.Key = memberKey(f.keyVal)]
        at == valueErrPos(f, valtok0)
    IN  IF ~ok
        THEN yieldErr(halted, ErrorUnexpectedEOF, f.tLine, f.tCol, "Unexpected EOF",
                      Done, Done)
        ELSE IF valtok.Kind = ArrayStart
        THEN Yield(valtok, Goto("arr_val", Append(stack, newFrame("arr"))))
        ELSE IF valtok.Kind = ObjectStart
        THEN Yield(valtok, Goto("obj_key", Append(stack, newFrame("obj"))))
        ELSE IF isScalarKind(valtok.Kind) THEN Yield(valtok, Goto("obj_sep", stack))
        ELSE yieldErr(halted, ErrorUnexpectedToken, at.Line, at.Col,
                      "Unexpected token inside object", Goto("obj_sep", stack), Done)

\* tokObject from the last next() of its loop
objSepHandler(t, ok, halted) ==
    LET f == [Top(stack) EXCEPT !.tLine = t.Line, !.tCol = t.Col]
    IN  IF ~ok
        THEN yieldErr(halted, ErrorUnexpectedEOF, t.Line, t.Col, "Unexpected EOF",
                      Done, Done)
        ELSE IF t.Kind = ObjectEnd THEN Yield(t, Return(stack))
        ELSE IF t.Kind # comma
        THEN yieldErr(halted, ErrorUnexpectedToken, t.Line, t.Col, "Unexpected token",
                      Goto("obj_key", SetTop(stack, setAfterComma(f, t))), Done)
        ELSE Silent(Goto("obj_key", SetTop(stack, setAfterComma(f, t))))

\* One rawTokenize call of next(yield), with what next() does about a Comment:
\* again = the loop of next() goes round; ok, t = what next() returns; halt =
\* the consumer stopped on the Comment.
nextCall(cont) ==
    LET r == rawTokenize(inp, st)
    IN  IF allowComments /\ r.ok /\ r.tok.Kind = Comment
        THEN [r |-> r, again |-> cont, ok |-> FALSE, t |-> r.tok,
              yield |-> <<r.tok>>, halt |-> ~cont]
        ELSE [r |-> r, again |-> FALSE, ok |-> r.ok,
              t |-> IF r.ok THEN r.tok ELSE nt, yield |-> << >>, halt |-> FALSE]

\* the effect on the state of a call n of next() handled as h
Apply(n, h, cont) ==
    LET ys == IF n.again THEN n.yield ELSE n.yield \o h.yield
        to == IF h.yield # << >> /\ ~cont THEN h.onFalse ELSE h.onTrue
    IN  /\ st' = n.r.st
        /\ raw' = IF n.r.ok THEN Append(raw, n.r.tok) ELSE raw
        /\ out' = out \o ys
        /\ stoppedAt' = IF ~stopped /\ ys # << >> /\ ~cont THEN Len(out) + 1 ELSE stoppedAt
        /\ calledAfterStop' = (calledAfterStop \/ (stopped /\ ys # << >>))
        /\ IF n.again
           THEN /\ nt' = n.t
                /\ errors' = errors \o n.r.errs
                /\ UNCHANGED <<pc, stack, mainI, haltedOnComment>>
           ELSE /\ nt' = ZeroToken
                /\ errors' = errors \o n.r.errs \o h.perr
                /\ haltedOnComment' = (haltedOnComment \/ n.halt)
                /\ pc' = to.pc
                /\ stack' = to.stack
                /\ mainI' = to.mainI
        /\ UNCHANGED <<inp, allowComments, allowTrailingCommas, decodeErrors, lastCall>>
        /\ UNCHANGED pathVars

\* return yield(valtok) after the ErrorTrailingComma token was accepted
CloseStep(cont) ==
    LET to == IF cont THEN Return(stack) ELSE Done
    IN  /\ out' = Append(out, Top(stack).pend)
        /\ stoppedAt' = IF ~stopped /\ ~cont THEN Len(out) + 1 ELSE stoppedAt
        /\ calledAfterStop' = (calledAfterStop \/ stopped)
        /\ pc' = to.pc
        /\ stack' = to.stack
        /\ mainI' = to.mainI
        /\ UNCHANGED <<inp, allowComments, allowTrailingCommas, st, nt,
                       haltedOnComment, errors, raw, decodeErrors, lastCall>>
        /\ UNCHANGED pathVars

MainStep ==
    /\ pc = "main"
    /\ \E cont \in BOOLEAN : \E n \in {nextCall(cont)} :
          \E h \in {mainHandler(n.t, n.ok, haltedOnComment \/ n.halt)} : Apply(n, h, cont)

ArrayValue ==
    /\ pc = "arr_val"
    /\ \E cont \in BOOLEAN : \E n \in {nextCall(cont)} :
          \E h \in {arrValHandler(n.t, n.ok, haltedOnComment \/ n.halt)} : Apply(n, h, cont)

ArrayClose ==
    /\ pc = "arr_close"
    /\ \E cont \in BOOLEAN : CloseStep(cont)

ArraySeparator ==
    /\ pc = "arr_sep"
    /\ \E cont \in BOOLEAN : \E n \in {nextCall(cont)} :
          \E h \in {arrSepHandler(n.t, n.ok, haltedOnComment \/ n.halt)} : Apply(n, h, cont)

ObjectKey ==
    /\ pc = "obj_key"
    /\ \E cont \in BOOLEAN : \E n \in {nextCall(cont)} :
          \E h \in {objKeyHandler(n.t, n.ok, haltedOnComment \/ n.halt)} : Apply(n, h, cont)

ObjectClose ==
    /\ pc = "obj_close"
    /\ \E cont \in BOOLEAN : CloseStep(cont)

ObjectColon ==
    /\ pc = "obj_colon"
    /\ \E cont \in BOOLEAN : \E n \in {nextCall(cont)} :
          \E h \in {objColonHandler(n.t, n.ok, haltedOnComment \/ n.halt)} : Apply(n, h, cont)

ObjectValue ==
    /\ pc = "obj_val"
    /\ \E cont \in BOOLEAN : \E n \in {nextCall(cont)} :
          \E h \in {objValHandler(n.t, n.ok, haltedOnComment \/ n.halt)} : Apply(n, h, cont)

ObjectSeparator ==
    /\ pc = "obj_sep"
    /\ \E cont \in BOOLEAN : \E n \in {nextCall(cont)} :
          \E h \in {objSepHandler(n.t, n.ok, haltedOnComment \/ n.halt)} : Apply(n, h, cont)

Next ==
    \/ MainStep
    \/ ArrayValue
    \/ ArrayClose
    \/ ArraySeparator
    \/ ObjectKey
    \/ ObjectClose
    \/ ObjectColon
    \/ ObjectValue
    \/ ObjectSeparator

----------------------------------------------------------------------------
(* Inputs: every concatenation of at most n fragments of a fragment set.   *)

RECURSIVE Flatten(_)
Flatten(fs) == IF fs = << >> THEN << >> ELSE Head(fs) \o Flatten(Tail(fs))

InputsOf(F, n) == {Flatten(fs) : fs \in UNION {[1..k -> F] : k \in 0..n}}

\* no decoding method has been called yet
NoCall ==
    [fn |-> "", arg |-> << >>, ret |-> << >>, before |-> << >>, n |-> 0, kind |-> -1,
     panicked |-> FALSE]

\* WithPaths before its loop: var currentPath *pathNode
NoPath == [consumed |-> 0, currentPath |-> << >>, returned |-> FALSE, panicked |-> FALSE]

\* the state Tokenize(inp) starts from, for the inputs I and the slices E
InitOf(I, E) ==
    /\ inp \in I
    /\ elems \in E
    /\ wp = NoPath
    /\ paired = << >>
    /\ path = << >>
    /\ slice = << >>
    /\ rendered = << >>
    /\ pathCalls = {}
    /\ allowComments \in BOOLEAN
    /\ allowTrailingCommas \in BOOLEAN
    /\ st = [pos |-> 0, lineStart |-> 0, line |-> 1, nextMustBeSep |-> FALSE]
    /\ pc = "main"
    /\ stack = << >>
    /\ mainI = 0
    /\ nt = ZeroToken
    /\ haltedOnComment = FALSE
    /\ out = << >>
    /\ errors = << >>
    /\ raw = << >>
    /\ stoppedAt = 0
    /\ calledAfterStop = FALSE
    /\ decodeErrors = << >>
    /\ lastCall = NoCall

\* the state Tokenize(inp) starts from, for the inputs I
InitWith(I) == InitOf(I, {<< >>})

MaxFrags == 3

\* the lexical fragments inputs are put together from
Frags ==
    {<<chLBracket>>, <<chRBracket>>, <<chLBrace>>, <<chRBrace>>, <<chComma>>,
     <<chColon>>, <<chQuote, chLowerA, chQuote>>, <<chZero>>, <<chLF>>,
     <<chSlash, chStar, chStar, chSlash>>}

\* the document prefixes the fragments are appended to:
\* nothing, [0   {"b"   {"b":0,   [{"":0,}
Prefixes ==
    {<< >>,
     <<chLBracket, chZero>>,
     <<chLBrace, chQuote, chLowerB, chQuote>>,
     <<chLBrace, chQuote, chLowerB, chQuote, chColon, chZero, chComma>>,
     <<chLBracket, chLBrace, chQuote, chQuote, chColon, chZero, chComma, chRBrace>>}

Inputs == {p \o x : p \in Prefixes, x \in InputsOf(Frags, MaxFrags)}

Init == InitWith(Inputs)

Spec == Init /\ [][Next]_vars

----------------------------------------------------------------------------
(* The JSON grammar of RFC 8259 as a recogniser, the yardstick for "valid".*)
(* tc admits one trailing comma before a closing bracket, cm admits        *)
(* comments where white space may stand.  Each operator returns the        *)
(* position after what it recognises from p, or -1.                        *)

RECURSIVE RefBlockEnd(_, _)
RefBlockEnd(s, p) ==
    IF p + 1 >= Len(s) THEN -1
    ELSE IF At(s, p) = chStar /\ At(s, p + 1) = chSlash THEN p + 2
    ELSE RefBlockEnd(s, p + 1)

RECURSIVE RefLineEnd(_, _)
RefLineEnd(s, p) ==
    IF p >= Len(s) THEN p
    ELSE IF At(s, p) = chLF THEN p + 1
    ELSE RefLineEnd(s, p + 1)

RECURSIVE RefWs(_, _, _)
RefWs(s, p, cm) ==
    IF p >= Len(s) THEN p
    ELSE IF At(s, p) \in {chSpace, chTab, chLF, chCR} THEN RefWs(s, p + 1, cm)
    ELSE IF cm /\ At(s, p) = chSlash /\ p + 1 < Len(s) /\ At(s, p + 1) = chStar
    THEN LET e == RefBlockEnd(s, p + 2) IN IF e = -1 THEN p ELSE RefWs(s, e, cm)
    ELSE IF cm /\ At(s, p) = chSlash /\ p + 1 < Len(s) /\ At(s, p + 1) = chSlash
    THEN RefWs(s, RefLineEnd(s, p + 2), cm)
    ELSE p

RefHex(s, p) == p < Len(s) /\ hexVal(At(s, p)) # -1

\* p stands after the opening quote
RECURSIVE RefString(_, _)
RefString(s, p) ==
    IF p >= Len(s) THEN -1
    ELSE IF At(s, p) = chQuote THEN p + 1
    ELSE IF At(s, p) = chBackslash
    THEN IF p + 1 >= Len(s) THEN -1
         ELSE IF At(s, p + 1) \in {chQuote, chBackslash, chSlash, chLowerB, chLowerF,
                                   chLowerN, chLowerR, chLowerT}
         THEN RefString(s, p + 2)
         ELSE IF At(s, p + 1) = chLowerU /\ RefHex(s, p + 2) /\ RefHex(s, p + 3)
                 /\ RefHex(s, p + 4) /\ RefHex(s, p + 5)
         THEN RefString(s, p + 6)
         ELSE -1
    ELSE LET d == DecodeRune(s, p)
         IN  IF (d.r = RuneError /\ d.sz <= 1) \/ d.r < 32 THEN -1
             ELSE RefString(s, p + d.sz)

RECURSIVE RefDigits(_, _)
RefDigits(s, p) == IF p < Len(s) /\ IsDigit(At(s, p)) THEN RefDigits(s, p + 1) ELSE p

RefExp(s, p) ==
    IF p < Len(s) /\ At(s, p) \in {chLowerE, chUpperE}
    THEN LET q == IF p + 1 < Len(s) /\ At(s, p + 1) \in {chPlus, chMinus}
                  THEN p + 2 ELSE p + 1
         IN  IF RefDigits(s, q) = q THEN -1 ELSE RefDigits(s, q)
    ELSE p

RefFrac(s, p) ==
    IF p < Len(s) /\ At(s, p) = chDot
    THEN IF RefDigits(s, p + 1) = p + 1 THEN -1 ELSE RefExp(s, RefDigits(s, p + 1))
    ELSE RefExp(s, p)

RefNumber(s, p) ==
    LET q == IF At(s, p) = chMinus THEN p + 1 ELSE p
    IN  IF q >= Len(s) \/ ~IsDigit(At(s, q)) THEN -1
        ELSE IF At(s, q) = chZero THEN RefFrac(s, q + 1)
        ELSE RefFrac(s, RefDigits(s, q))

RefLiteral(s, p, word) ==
    IF p + Len(word) <= Len(s) /\ Slice(s, p, p + Len(word)) = word
    THEN p + Len(word) ELSE -1

RECURSIVE RefValue(_, _, _, _), RefElems(_, _, _, _), RefMembers(_, _, _, _)
\* p stands on the first byte of the value
RefValue(s, p, tc, cm) ==
    IF p >= Len(s) THEN -1
    ELSE IF At(s, p) = chLBracket
    THEN LET q == RefWs(s, p + 1, cm)
         IN  IF q < Len(s) /\ At(s, q) = chRBracket THEN q + 1 ELSE RefElems(s, q, tc, cm)
    ELSE IF At(s, p) = chLBrace
    THEN LET q == RefWs(s, p + 1, cm)
         IN  IF q < Len(s) /\ At(s, q) = chRBrace THEN q + 1 ELSE RefMembers(s, q, tc, cm)
    ELSE IF At(s, p) = chQuote THEN RefString(s, p + 1)
    ELSE IF At(s, p) = chMinus \/ IsDigit(At(s, p)) THEN RefNumber(s, p)
    ELSE IF At(s, p) = chLowerT
    THEN RefLiteral(s, p, <<chLowerT, chLowerR, chLowerU, chLowerE>>)
    ELSE IF At(s, p) = chLowerF
    THEN RefLiteral(s, p, <<chLowerF, chLowerA, chLowerL, chLowerS, chLowerE>>)
    ELSE IF At(s, p) = chLowerN
    THEN RefLiteral(s, p, <<chLowerN, chLowerU, chLowerL, chLowerL>>)
    ELSE -1

\* p stands on the first byte of an element
RefElems(s, p, tc, cm) ==
    LET v == RefValue(s, p, tc, cm)
        q == RefWs(s, v, cm)
        r == RefWs(s, q + 1, cm)
    IN  IF v = -1 \/ q >= Len(s) THEN -1
        ELSE IF At(s, q) = chRBracket THEN q + 1
        ELSE IF At(s, q) # chComma THEN -1
        ELSE IF tc /\ r < Len(s) /\ At(s, r) = chRBracket THEN r + 1
        ELSE RefElems(s, r, tc, cm)

\* p stands on the first byte of a member
RefMembers(s, p, tc, cm) ==
    LET k == IF p < Len(s) /\ At(s, p) = chQuote THEN RefString(s, p + 1) ELSE -1
        c == RefWs(s, k, cm)
        v == IF k # -1 /\ c < Len(s) /\ At(s, c) = chColon
             THEN RefValue(s, RefWs(s, c + 1, cm), tc, cm) ELSE -1
        q == RefWs(s, v, cm)
        r == RefWs(s, q + 1, cm)
    IN  IF v = -1 \/ q >= Len(s) THEN -1
        ELSE IF At(s, q) = chRBrace THEN q + 1
        ELSE IF At(s, q) # chComma THEN -1
        ELSE IF tc /\ r < Len(s) /\ At(s, r) = chRBrace THEN r + 1
        ELSE RefMembers(s, r, tc, cm)

IsValidJSON(s, tc, cm) ==
    LET v == RefValue(s, RefWs(s, 0, cm), tc, cm)
    IN  v # -1 /\ RefWs(s, v, cm) = Len(s)

----------------------------------------------------------------------------
(* What the consumer has seen.                                             *)

\* the iteration has returned and the consumer never asked for it to stop
finished == pc = "done" /\ ~stopped

isErrorToken(t) == IsError(t.Kind)
ErrorsOf(toks) == SelectSeq(toks, isErrorToken)

\* the scanner tokens next() hands to the driver: all of them, less the
\* Comment tokens when comments are allowed
reachesDriver(t) == ~(allowComments /\ t.Kind = Comment)
rawC == SelectSeq(raw, reachesDriver)

----------------------------------------------------------------------------
(* Strings of raw bytes: an opening quote followed by at most MaxStrFrags  *)
(* bytes out of a, the UTF-8 encodings of U+0085 (C2 85) and U+FFFD        *)
(* (EF BF BD), backslash and quote; and two documents that take the driver *)
(* through every call of next().                                           *)

MaxStrFrags == 4

StrFrags ==
    {<<chLowerA>>, <<194>>, <<133>>, <<239>>, <<191>>, <<189>>, <<chBackslash>>,
     <<chQuote>>}

\* [0,]  and  {"b":0,}
Seeds ==
    {<<chLBracket, chZero, chComma, chRBracket>>,
     <<chLBrace, chQuote, chLowerB, chQuote, chColon, chZero, chComma, chRBrace>>}

StrInputs == {<<chQuote>> \o x : x \in InputsOf(StrFrags, MaxStrFrags)} \cup Seeds

InitStr == InitWith(StrInputs)

SpecStr == InitStr /\ [][Next]_vars

----------------------------------------------------------------------------
(* C1 .. C10                                                               *)

\* C1: iterating any input that is not valid JSON to the end yields at least
\* one error token; this includes the empty and the white-space-only input.
\* (Stated for the standard grammar: both options off.)
C1_InvalidInputYieldsError ==
    (finished /\ ~allowComments /\ ~allowTrailingCommas
        /\ ~IsValidJSON(inp, FALSE, FALSE))
      => ErrorsOf(out) # << >>

\* C2: with both options off, iterating a valid RFC 8259 document to the end
\* yields no error token.
C2_ValidInputYieldsNoError ==
    (finished /\ ~allowComments /\ ~allowTrailingCommas
        /\ IsValidJSON(inp, FALSE, FALSE))
      => ErrorsOf(out) = << >>

\* C3: once yield has returned false, yield is never invoked again, whatever
\* the driver was doing.
C3_NoYieldAfterStop == ~calledAfterStop

\* C4: with AllowComments on, when the consumer returns false for a Comment
\* token, no error token is delivered after it.
C4_NoErrorAfterStopOnComment ==
    (allowComments /\ stopped /\ out[stoppedAt].Kind = Comment)
      => \A j \in (stoppedAt + 1)..Len(out) : ~IsError(out[j].Kind)

\* the calls of next() the driver can still make without the scanner moving
pcRank ==
    IF pc = "done" THEN 0
    ELSE IF pc \in {"arr_close", "obj_close"} THEN 3
    ELSE IF pc = "obj_colon" THEN 2
    ELSE 1

\* what is left to do: the bytes not yet scanned, then pcRank
Measure == 4 * (Len(inp) + 1 - st.pos) + pcRank

\* C5: Tokenize terminates after finitely many yields: every step of the
\* driver strictly decreases Measure, which never goes below 0; a scanner step
\* that returns a token strictly advances the cursor; and a step that yields
\* without pulling a scanner token (the close after a trailing-comma error)
\* lowers pcRank, so the driver cannot loop without pulling.
C5_Terminates ==
    [][/\ Measure' < Measure
       /\ Measure' >= 0
       /\ raw' # raw => st'.pos > st.pos
       /\ (out' # out /\ st' = st) => pcRank' < pcRank]_vars

\* a whole iteration, through a container with a trailing-comma close, with
\* an error the scanner recovered from
C5_Witness ==
    /\ finished
    /\ st.pos >= Len(inp)
    /\ Len(raw) >= 4
    /\ \E i \in 1..Len(out) : out[i].Kind = ErrorTrailingComma

isStart(t) == t.Kind \in {ArrayStart, ObjectStart}
isClose(t) == t.Kind \in {ArrayEnd, ObjectEnd}

RECURSIVE ValueEndFrom(_, _, _)
ValueEndFrom(o, i, d) ==
    IF i > Len(o) THEN 0
    ELSE LET d2 == d + (IF isStart(o[i]) THEN 1 ELSE IF isClose(o[i]) THEN -1 ELSE 0)
         IN  IF d2 = 0 THEN i ELSE ValueEndFrom(o, i + 1, d2)

\* the index in out of the last token of the first top-level value, 0 if the
\* first token main saw begins no value or the value is not complete
FirstValueEnd ==
    LET S == {i \in 1..Len(out) : reachesDriver(out[i])}
        f == CHOOSE i \in S : \A k \in S : i <= k
    IN  IF S = {} THEN 0
        ELSE IF isScalarKind(out[f].Kind) \/ isStart(out[f]) THEN ValueEndFrom(out, f, 0)
        ELSE 0

\* the index in toks of the scanner token that tok was yielded from
IndexIn(toks, tok) ==
    LET S == {j \in 1..Len(toks) : toks[j] = [tok EXCEPT !.Key = Nil]}
    IN  IF S = {} THEN 0 ELSE CHOOSE j \in S : \A k \in S : j <= k

\* the scanner tokens main was handed after the first top-level value
TrailingTokens ==
    SelectSeq(SubSeq(raw, IndexIn(raw, out[FirstValueEnd]) + 1, Len(raw)), reachesDriver)

\* C7: an ErrorTrailingInput token is the last token yielded and the
\* iteration is over with it (so there is at most one).  When the first
\* top-level value is complete and the consumer goes on: if the scanner finds
\* a further token, the last token yielded is the ErrorTrailingInput at that
\* token's line and column, and no token after that one is scanned; if only
\* white space follows, the input is consumed and no such token is yielded.
C7_TrailingInput ==
    /\ \A i \in 1..Len(out) :
          out[i].Kind = ErrorTrailingInput => (i = Len(out) /\ pc = "done")
    /\ (finished /\ FirstValueEnd # 0) =>
          IF TrailingTokens = << >>
          THEN /\ st.pos >= Len(inp)
               /\ out[Len(out)].Kind # ErrorTrailingInput
          ELSE /\ Len(TrailingTokens) = 1
               /\ out[Len(out)] = mkErr(ErrorTrailingInput, TrailingTokens[1].Line,
                                        TrailingTokens[1].Col, "Trailing input")

\* a complete container followed by more input, iterated to the end
C7_Witness ==
    /\ finished
    /\ FirstValueEnd > 1
    /\ TrailingTokens # << >>
    /\ st.pos < Len(inp)
    /\ out[Len(out)].Kind = ErrorTrailingInput

\* the commas directly before a closing bracket, in input order
RECURSIVE TrailingCommasOf(_, _)
TrailingCommasOf(r, j) ==
    IF j >= Len(r) THEN << >>
    ELSE (IF r[j].Kind = comma /\ isClose(r[j + 1]) THEN <<r[j]>> ELSE << >>)
         \o TrailingCommasOf(r, j + 1)

\* C8: for a document that is valid but for commas directly before a closing
\* ']' or '}': with AllowTrailingCommas off, the error tokens yielded are one
\* ErrorTrailingComma per such comma, in order, each at its comma's line and
\* column and each directly followed by the close token; every close token
\* is yielded.  With AllowTrailingCommas on, no error token is yielded.
C8_TrailingComma ==
    (finished /\ IsValidJSON(inp, TRUE, allowComments)) =>
        LET errs == ErrorsOf(out)
            tcs == TrailingCommasOf(rawC, 1)
        IN  /\ Len(SelectSeq(out, isClose)) = Len(SelectSeq(rawC, isClose))
            /\ IF allowTrailingCommas THEN errs = << >>
               ELSE /\ Len(errs) = Len(tcs)
                    /\ \A i \in 1..Len(errs) :
                          /\ errs[i] = mkErr(ErrorTrailingComma, tcs[i].Line, tcs[i].Col,
                                             "Trailing ','")
                          /\ At(inp, tcs[i].Start) = chComma
                    /\ \A j \in 1..Len(out) :
                          out[j].Kind = ErrorTrailingComma =>
                              (j < Len(out) /\ isClose(out[j + 1]))

\* an object and an array each closed after a trailing comma, the option off
C8_Witness ==
    /\ finished
    /\ ~allowTrailingCommas
    /\ IsValidJSON(inp, TRUE, allowComments)
    /\ \E j \in 1..(Len(out) - 1) :
          out[j].Kind = ErrorTrailingComma /\ out[j + 1].Kind = ObjectEnd
    /\ \E j \in 1..(Len(out) - 1) :
          out[j].Kind = ErrorTrailingComma /\ out[j + 1].Kind = ArrayEnd

\* the number of brackets open after r[1..n]
RECURSIVE RawDepth(_, _)
RawDepth(r, n) ==
    IF n = 0 THEN 0
    ELSE LET d == RawDepth(r, n - 1)
         IN  IF isStart(r[n]) THEN d + 1
             ELSE IF isClose(r[n]) /\ d > 0 THEN d - 1
             ELSE d

\* C9: with AllowTrailingCommas on, a comma inside an array or an object that
\* directly follows '[', '{' or another comma yields ErrorUnexpectedComma at
\* its position.
C9_LeadingOrDoubledComma ==
    (finished /\ allowTrailingCommas) =>
        \A j \in 2..Len(rawC) :
            (/\ rawC[j].Kind = comma
             /\ (isStart(rawC[j - 1]) \/ rawC[j - 1].Kind = comma)
             /\ RawDepth(rawC, j - 1) > 0)
            => \E i \in 1..Len(out) :
                  /\ out[i].Kind = ErrorUnexpectedComma
                  /\ out[i].Line = rawC[j].Line
                  /\ out[i].Col = rawC[j].Col

\* the containers open after token t, given those open before it (innermost
\* last)
OpenAfter(open, t) ==
    IF isStart(t) THEN Append(open, t.Kind)
    ELSE IF isClose(t) /\ open # << >> THEN SubSeq(open, 1, Len(open) - 1)
    ELSE open

\* t is a value (a scalar or a container start) directly inside an object
isMemberValue(open, t) ==
    /\ isScalarKind(t.Kind) \/ isStart(t)
    /\ open # << >>
    /\ open[Len(open)] = ObjectStart

\* the scanner token handed to the driver two before the one tok was yielded
\* from: the token in key position of tok's member
KeyTokenIn(rc, tok) == rc[IndexIn(rc, tok) - 2]
KeyTokenOf(tok) == KeyTokenIn(rawC, tok)

\* the statement of C10 about out[i..], open the containers open before out[i]
\* and rc the scanner tokens handed to the driver
RECURSIVE KeysFrom(_, _, _)
KeysFrom(i, open, rc) ==
    IF i > Len(out) THEN TRUE
    ELSE /\ (out[i].Key # Nil) <=> isMemberValue(open, out[i])
         /\ (out[i].Key # Nil /\ (~stopped \/ i <= stoppedAt)) =>
               /\ IndexIn(rc, out[i]) >= 3
               /\ out[i].Key = IF KeyTokenIn(rc, out[i]).Kind = String
                               THEN KeyTokenIn(rc, out[i]).Value
                               ELSE << >>
         /\ KeysFrom(i + 1, OpenAfter(open, out[i]), rc)

\* C10: a token's Key is non-nil exactly when the token is the value of an
\* object member; array elements, top-level values, closing tokens, comments
\* and the driver's error tokens have a nil Key.  The Key is the decoded
\* payload of the member's key string (the empty, non-nil Key when the key
\* string is "" or when the token in key position is no string).
C10_KeyIffMemberValue == \E rc \in {rawC} : KeysFrom(1, << >>, rc)

\* a member whose key string is "", next to tokens that have no key
C10_Witness ==
    /\ finished
    /\ \E i \in 1..Len(out) :
          /\ out[i].Key = << >>
          /\ KeyTokenOf(out[i]).Kind = String
          /\ KeyTokenOf(out[i]).Value = << >>
    /\ \E i \in 1..Len(out) : isClose(out[i]) /\ out[i].Key = Nil

----------------------------------------------------------------------------
(* C11 .. C20                                                              *)

\* the start kind a closing token closes
startOf(t) == IF t.Kind = ArrayEnd THEN ArrayStart ELSE ObjectStart

\* every closing token of out[i..] closes the innermost container open at it,
\* and that container is of its type; open are the containers open before out[i]
RECURSIVE NestedFrom(_, _)
NestedFrom(i, open) ==
    IF i > Len(out) THEN TRUE
    ELSE /\ isClose(out[i]) => (open # << >> /\ open[Len(open)] = startOf(out[i]))
         /\ NestedFrom(i + 1, OpenAfter(open, out[i]))

\* the containers left open by out[i..]
RECURSIVE OpenFrom(_, _)
OpenFrom(i, open) ==
    IF i > Len(out) THEN open ELSE OpenFrom(i + 1, OpenAfter(open, out[i]))

\* C11: at every point of every iteration the container tokens yielded so
\* far are well nested: each ArrayEnd/ObjectEnd closes the most recent open
\* ArrayStart/ObjectStart, which is of its type (so ends never outnumber
\* starts).
C11_WellNested == NestedFrom(1, << >>)

\* an iteration with error tokens in which an object and the array around it
\* were closed
C11_Witness ==
    /\ finished
    /\ ErrorsOf(out) # << >>
    /\ \E i \in 1..Len(out) : \E j \in (i + 1)..Len(out) :
          out[i].Kind = ObjectEnd /\ out[j].Kind = ArrayEnd

\* C12: when a complete iteration yields no error token, the container tokens
\* are balanced and correctly nested: every end closes the innermost open
\* start of its type and no container is left open.
C12_BalancedWithoutErrors ==
    (finished /\ ErrorsOf(out) = << >>) =>
        (NestedFrom(1, << >>) /\ OpenFrom(1, << >>) = << >>)

\* an error-free iteration over an object nested in an array
C12_Witness ==
    /\ finished
    /\ ErrorsOf(out) = << >>
    /\ \E i \in 1..Len(out) : \E j \in (i + 1)..Len(out) :
          out[i].Kind = ObjectEnd /\ out[j].Kind = ArrayEnd

\* the index of the first byte of the line that byte p of inp lies on
RECURSIVE LineStartOf(_)
LineStartOf(p) ==
    IF p = 0 THEN 0
    ELSE IF At(inp, p - 1) = chLF THEN p
    ELSE LineStartOf(p - 1)

\* C13: columns are 1-based on every line: a token that the scanner found in
\* the input has Col = 1 + the number of bytes between the start of its line
\* and its first byte, so a token right after an LF has Col = 1.
C13_ColumnOneBased ==
    \A i \in 1..Len(out) :
        ~isErrorToken(out[i]) =>
            out[i].Col = 1 + out[i].Start - LineStartOf(out[i].Start)

\* C14: every token delivered to the consumer, error tokens included, has
\* Line >= 1 and Col >= 1.
C14_PositionsFromOne ==
    \A i \in 1..Len(out) : out[i].Line >= 1 /\ out[i].Col >= 1

\* a '/' of the input opens a comment (no string of these inputs holds one)
HasComment == \E i \in 1..Len(inp) : inp[i] = chSlash

\* C16: with AllowComments=false no Comment token is ever delivered, and a
\* complete iteration over an input with a comment in it yields an error
\* token.
C16_CommentsRejected ==
    ~allowComments =>
        /\ \A i \in 1..Len(out) : out[i].Kind # Comment
        /\ (finished /\ HasComment) => ErrorsOf(out) # << >>

----------------------------------------------------------------------------
(* Inputs put together from the pieces of comments, numbers, strings and   *)
(* literals, for the claims about what the scanner makes of them.          *)

MaxLexFrags == 4

LexFrags ==
    {<<chSlash>>, <<chStar>>, <<chLF>>, <<49>>, <<chDot>>, <<chLowerE>>,
     <<chQuote>>, <<chLowerT, chLowerR, chLowerU, chLowerE>>}

\* [ /* c */ 1 ] // end
CommentExample ==
    <<chLBracket, chSpace, chSlash, chStar, chSpace, 99, chSpace, chStar, chSlash,
      chSpace, 49, chSpace, chRBracket, chSpace, chSlash, chSlash, chSpace,
      101, 110, 100>>

\* [1xtrue]
SeparatorExample == <<chLBracket, 49, 120, 116, 114, 117, 101, chRBracket>>

LexInputs ==
    InputsOf(LexFrags, MaxLexFrags) \cup Seeds \cup {CommentExample, SeparatorExample}

InitLex == InitWith(LexInputs)

SpecLex == InitLex /\ [][Next]_vars

\* C15: every yielded token has 0 <= Start <= End < len(input).
C15_OffsetsInsideInput ==
    \A i \in 1..Len(out) :
        /\ 0 <= out[i].Start
        /\ out[i].Start <= out[i].End
        /\ out[i].End < Len(inp)

\* a token of several bytes was yielded that starts after the first byte of
\* the input and ends on its last byte
C15_Witness ==
    \E j \in 1..Len(out) :
        /\ out[j].Kind \in {Number, String, Comment}
        /\ 0 < out[j].Start
        /\ out[j].Start < out[j].End
        /\ out[j].End = Len(inp) - 1

\* the input is nothing but a // comment without an LF
LineCommentToEOF ==
    /\ Len(inp) >= 2
    /\ inp[1] = chSlash /\ inp[2] = chSlash
    /\ \A i \in 1..Len(inp) : inp[i] # chLF

CommentsOf(toks) == SelectSeq(toks, LAMBDA t : t.Kind = Comment)

\* C17: with AllowComments=true and a consumer that accepts every token, a //
\* comment that runs to the end of the input is yielded as a Comment token
\* and is no error: [ /* c */ 1 ] // end yields exactly two Comment tokens
\* and no error token.
C17_LineCommentAtEndOfInput ==
    (allowComments /\ finished) =>
        /\ LineCommentToEOF =>
              (Len(CommentsOf(out)) = 1 /\ ErrorsOf(out) = << >>)
        /\ inp = CommentExample =>
              (Len(CommentsOf(out)) = 2 /\ ErrorsOf(out) = << >>)

----------------------------------------------------------------------------
(* Decoding of Number tokens.  Go's fixed-width integers are sequences of  *)
(* 16-bit limbs, least significant first: two limbs are an int32, four an  *)
(* int64, in two's complement; arithmetic on them wraps as Go's does.      *)

notAnInteger == 0
outOfRange == 1

IsNonIntegerDecodeError(e) == e = notAnInteger
IsOutOfRangeDecodeError(e) == e = outOfRange

zeroInt(w) == [i \in 1..w |-> 0]
maxInt(w) == [i \in 1..w |-> IF i = w THEN 32767 ELSE 65535]
minInt(w) == [i \in 1..w |-> IF i = w THEN 32768 ELSE 0]

isNegative(x) == x[Len(x)] >= 32768
isZero(x) == \A i \in 1..Len(x) : x[i] = 0
isPositive(x) == ~isNegative(x) /\ ~isZero(x)

\* x + c from limb i on, the carry out of the top limb dropped
RECURSIVE addFrom(_, _, _)
addFrom(x, i, c) ==
    IF i > Len(x) \/ c = 0 THEN x
    ELSE addFrom([x EXCEPT ![i] = (x[i] + c) % 65536], i + 1, (x[i] + c) \div 65536)

\* x - b from limb i on, the borrow out of the top limb dropped
RECURSIVE subFrom(_, _, _)
subFrom(x, i, b) ==
    IF i > Len(x) \/ b = 0 THEN x
    ELSE IF x[i] >= b THEN [x EXCEPT ![i] = x[i] - b]
    ELSE subFrom([x EXCEPT ![i] = x[i] - b + 65536], i + 1, 1)

\* x * m + c from limb i on, for a small m
RECURSIVE mulFrom(_, _, _, _)
mulFrom(x, i, m, c) ==
    IF i > Len(x) THEN x
    ELSE mulFrom([x EXCEPT ![i] = (x[i] * m + c) % 65536], i + 1, m,
                 (x[i] * m + c) \div 65536)

add(x, d) == addFrom(x, 1, d)
sub(x, d) == subFrom(x, 1, d)
mul10(x) == mulFrom(x, 1, 10, 0)

\* what a decoding method did: the value it returned (rets holds more than
\* one where Go leaves the conversion to the implementation), the decode
\* errors it appended
Returned(x, errs) == [rets |-> {x}, errs |-> errs, slow |-> FALSE]
SlowPath == [rets |-> {}, errs |-> << >>, slow |-> TRUE]

\* the loop over the digits after a '-': v[i+1] is Value[i]
RECURSIVE negLoop(_, _, _)
negLoop(v, i, tot) ==
    IF i >= Len(v) THEN Returned(tot, << >>)
    ELSE IF ~IsDigit(At(v, i)) THEN SlowPath
    ELSE LET t1 == sub(tot, At(v, i) - chZero)
         IN  IF isPositive(t1) THEN Returned(minInt(Len(tot)), <<outOfRange>>)
             ELSE IF i + 1 < Len(v)
             THEN LET t2 == mul10(t1)
                  IN  IF isPositive(t2) THEN Returned(minInt(Len(tot)), <<outOfRange>>)
                      ELSE negLoop(v, i + 1, t2)
             ELSE negLoop(v, i + 1, t1)

\* the loop over the digits of a numeral without '-'
RECURSIVE posLoop(_, _, _)
posLoop(v, i, tot) ==
    IF i >= Len(v) THEN Returned(tot, << >>)
    ELSE IF ~IsDigit(At(v, i)) THEN SlowPath
    ELSE LET t1 == add(tot, At(v, i) - chZero)
         IN  IF isNegative(t1) THEN Returned(maxInt(Len(tot)), <<outOfRange>>)
             ELSE IF i + 1 < Len(v)
             THEN LET t2 == mul10(t1)
                  IN  IF isNegative(t2) THEN Returned(maxInt(Len(tot)), <<outOfRange>>)
                      ELSE posLoop(v, i + 1, t2)
             ELSE posLoop(v, i + 1, t1)

\* the part of AsInt64/AsInt32 before slow_path, for an integer of w limbs
fastPath(v, w) ==
    IF At(v, 0) = chMinus THEN negLoop(v, 1, zeroInt(w)) ELSE posLoop(v, 0, zeroInt(w))

(* strconv.ParseFloat(s, 64) on the text of a Number token.  A float64 is   *)
(* a record: neg its sign, inf whether it is an infinity, ip the integer    *)
(* part of its magnitude as eight limbs, fr how its fractional part         *)
(* compares with 1/2 (0: none, 1: below, 2: equal, 3: above).               *)

wideZero == zeroInt(8)
wideMax == [i \in 1..8 |-> 65535]

\* -1, 0, 1 as x is below, equal to, above y (unsigned, of equal length)
RECURSIVE cmpFrom(_, _, _)
cmpFrom(x, y, i) ==
    IF i = 0 THEN 0
    ELSE IF x[i] < y[i] THEN -1
    ELSE IF x[i] > y[i] THEN 1
    ELSE cmpFrom(x, y, i - 1)

cmp(x, y) == cmpFrom(x, y, Len(x))

shr1(x) ==
    [i \in 1..Len(x) |->
        (x[i] \div 2) + (IF i < Len(x) /\ x[i + 1] % 2 = 1 THEN 32768 ELSE 0)]

RECURSIVE shl(_, _)
shl(x, n) ==
    IF n = 0 THEN x
    ELSE LET twice == mulFrom(x, 1, 2, 0)
         IN  IF Len(twice) = Len(x) THEN shl(twice, n - 1) ELSE twice

\* 2^53
float64ExactIntMax == [i \in 1..8 |-> IF i = 4 THEN 32 ELSE 0]

\* the digits ds[i..] read on to the number acc
RECURSIVE horner(_, _, _)
horner(ds, i, acc) ==
    IF i > Len(ds) THEN acc
    ELSE LET next == add(mul10(acc), ds[i] - chZero)
         IN  IF Len(next) = Len(acc) THEN horner(ds, i + 1, next) ELSE next

\* the digits ds[i..] as a small number, capped
RECURSIVE smallNumber(_, _, _)
smallNumber(ds, i, acc) ==
    IF i > Len(ds) THEN acc
    ELSE smallNumber(ds, i + 1, IF acc >= 1000 THEN acc ELSE acc * 10 + (ds[i] - chZero))

RECURSIVE stripZeros(_)
stripZeros(ds) ==
    IF ds # << >> /\ Head(ds) = chZero THEN stripZeros(Tail(ds)) ELSE ds

zeros(n) == [i \in 1..n |-> chZero]

\* how the fraction 0.ds compares with 1/2
fractionOf(ds) ==
    LET rest == IF ds = << >> THEN << >> ELSE Tail(ds)
        restZero == \A i \in 1..Len(rest) : rest[i] = chZero
    IN  IF \A i \in 1..Len(ds) : ds[i] = chZero THEN 0
        ELSE IF Head(ds) < 53 THEN 1
        ELSE IF Head(ds) = 53 /\ restZero THEN 2
        ELSE 3

\* the exponent of the numeral v, whose mantissa ends before position p
exponentAt(v, p) ==
    IF p >= Len(v) THEN 0
    ELSE IF At(v, p + 1) = chMinus THEN 0 - smallNumber(Slice(v, p + 2, Len(v)), 1, 0)
    ELSE IF At(v, p + 1) = chPlus THEN smallNumber(Slice(v, p + 2, Len(v)), 1, 0)
    ELSE smallNumber(Slice(v, p + 1, Len(v)), 1, 0)

\* the parts of the numeral v, whose digits before the point are v[p0:p1] and
\* whose mantissa is v[:p2]
partsAt(v, p0, p1, p2) ==
    [neg |-> p0 = 1,
     int |-> Slice(v, p0, p1),
     frac |-> IF p2 > p1 THEN Slice(v, p1 + 1, p2) ELSE << >>,
     exp |-> exponentAt(v, p2)]

partsAfterInt(v, p0, p1) ==
    partsAt(v, p0, p1,
            IF p1 < Len(v) /\ At(v, p1) = chDot THEN skipDigits(v, p1 + 1) ELSE p1)

partsAfterSign(v, p0) == partsAfterInt(v, p0, skipDigits(v, p0))

\* the parts of the numeral v: sign, digits before and after the point,
\* exponent
numeralParts(v) == partsAfterSign(v, IF At(v, 0) = chMinus THEN 1 ELSE 0)

\* the digits of the integer part and of the fractional part of the number
\* with the digits ds, scaled by 10^scale
scaled(neg, ds, scale) ==
    IF scale >= 0
    THEN [neg |-> neg, int |-> stripZeros(ds \o zeros(scale)), frac |-> << >>]
    ELSE IF 0 - scale >= Len(ds)
    THEN [neg |-> neg, int |-> << >>, frac |-> zeros(0 - scale - Len(ds)) \o ds]
    ELSE [neg |-> neg, int |-> stripZeros(SubSeq(ds, 1, Len(ds) + scale)),
          frac |-> SubSeq(ds, Len(ds) + scale + 1, Len(ds))]

decimalOfParts(n) == scaled(n.neg, n.int \o n.frac, n.exp - Len(n.frac))

\* the decimal value of the numeral: the digits of its integer part and of
\* its fractional part
decimalOf(v) == decimalOfParts(numeralParts(v))

\* round to nearest even of the integer m * 2^n + (guard and sticky bits) to
\* 53 significant bits
RECURSIVE roundTo53(_, _, _, _)
roundTo53(m, n, guard, sticky) ==
    IF cmp(m, float64ExactIntMax) >= 0
    THEN roundTo53(shr1(m), n + 1, m[1] % 2 = 1, sticky \/ guard)
    ELSE shl(IF guard /\ (sticky \/ m[1] % 2 = 1) THEN add(m, 1) ELSE m, n)

\* the float64 nearest to the number with sign neg, integer part ip (of
\* digits decimal digits) and fraction fr
nearestFloat(neg, digits, ip, fr) ==
    IF digits > 309
    THEN [f |-> [neg |-> neg, inf |-> TRUE, ip |-> wideMax, fr |-> 0], err |-> TRUE]
    ELSE IF digits > 38
    THEN [f |-> [neg |-> neg, inf |-> FALSE, ip |-> wideMax, fr |-> 0], err |-> FALSE]
    ELSE IF cmp(ip, float64ExactIntMax) >= 0
    THEN [f |-> [neg |-> neg, inf |-> FALSE, ip |-> roundTo53(ip, 0, FALSE, fr # 0),
                 fr |-> 0],
          err |-> FALSE]
    ELSE [f |-> [neg |-> neg, inf |-> FALSE, ip |-> ip, fr |-> fr], err |-> FALSE]

floatOfDecimal(d) ==
    nearestFloat(d.neg, Len(d.int),
                 IF Len(d.int) > 38 THEN wideMax ELSE horner(d.int, 1, wideZero),
                 fractionOf(d.frac))

\* f, err := strconv.ParseFloat(string(v), 64): a magnitude of more than 309
\* digits is out of float64's range (err != nil, f infinite); an integer
\* part of 2^53 and more is rounded to 53 bits; more than 38 digits are kept
\* as the largest number of eight limbs
ParseFloat(v) == floatOfDecimal(decimalOf(v))

\* comparisons of the float64 f with the whole number +x or -x
geq(f, x) == ~f.neg /\ (f.inf \/ cmp(f.ip, x) >= 0)
gt(f, x) == ~f.neg /\ (f.inf \/ cmp(f.ip, x) > 0 \/ (cmp(f.ip, x) = 0 /\ f.fr # 0))
leqMinus(f, x) == f.neg /\ (f.inf \/ cmp(f.ip, x) >= 0)
ltMinus(f, x) == f.neg /\ (f.inf \/ cmp(f.ip, x) > 0 \/ (cmp(f.ip, x) = 0 /\ f.fr # 0))

\* 2^63, 2^31 and 2^31 - 1 as float64 magnitudes; the literal 2.1474836e+09
two63 == [i \in 1..8 |-> IF i = 4 THEN 32768 ELSE 0]
two31 == [i \in 1..8 |-> IF i = 2 THEN 32768 ELSE 0]
maxInt32f == [i \in 1..8 |-> IF i = 1 THEN 65535 ELSE IF i = 2 THEN 32767 ELSE 0]
lit21474836e09 == [i \in 1..8 |-> IF i = 1 THEN 65488 ELSE IF i = 2 THEN 32767 ELSE 0]

\* math.Floor(f) == f
isWhole(f) == f.fr = 0

\* math.Round(f): halves away from zero
Round(f) == [f EXCEPT !.ip = IF f.fr >= 2 THEN add(f.ip, 1) ELSE f.ip, !.fr = 0]

\* -x in two's complement
negate(x) == add([i \in 1..Len(x) |-> 65535 - x[i]], 1)

\* the whole float64 f lies in the range of the integers of w limbs
inRange(f, w) ==
    /\ ~f.inf
    /\ \A i \in (w + 1)..8 : f.ip[i] = 0
    /\ \/ f.ip[w] < 32768
       \/ f.neg /\ SubSeq(f.ip, 1, w) = minInt(w)

\* int64(f), int32(f) of a whole f: its value when that is in range, else
\* whatever the implementation makes of it
toInt(f, w) ==
    IF inRange(f, w)
    THEN {IF f.neg THEN negate(SubSeq(f.ip, 1, w)) ELSE SubSeq(f.ip, 1, w)}
    ELSE {minInt(w), IF f.neg THEN minInt(w) ELSE maxInt(w)}

Converted(f, w, errs) == [rets |-> toInt(f, w), errs |-> errs, slow |-> TRUE]
Clamped(x, errs) == [rets |-> {x}, errs |-> errs, slow |-> TRUE]

\* AsInt64 after math.Round, for an f that is not whole
roundedToInt64(rounded) ==
    IF geq(rounded, two63) THEN Clamped(maxInt(4), <<outOfRange>>)
    ELSE IF ltMinus(rounded, two63) THEN Clamped(minInt(4), <<outOfRange>>)
    ELSE Converted(rounded, 4, <<notAnInteger>>)

\* AsInt64 after strconv.ParseFloat
floatToInt64(f, err) ==
    IF err
    THEN IF geq(f, two63) THEN Clamped(maxInt(4), <<outOfRange>>)
         ELSE IF leqMinus(f, two63) THEN Clamped(minInt(4), <<outOfRange>>)
         ELSE Converted(f, 4, <<outOfRange>>)
    ELSE IF isWhole(f)
    THEN IF cmp(f.ip, float64ExactIntMax) <= 0 THEN Converted(f, 4, << >>)
         ELSE IF geq(f, two63) THEN Clamped(maxInt(4), <<outOfRange>>)
         ELSE IF ltMinus(f, two63) THEN Clamped(minInt(4), <<outOfRange>>)
         ELSE Converted(f, 4, <<outOfRange>>)
    ELSE roundedToInt64(Round(f))

parsedToInt64(r) == floatToInt64(r.f, r.err)

\* AsInt64 from slow_path on
slowPath64(v) == parsedToInt64(ParseFloat(v))

\* AsInt32 after math.Round, for an f that is not whole
roundedToInt32(rounded) ==
    IF gt(rounded, maxInt32f) THEN Clamped(maxInt(2), <<outOfRange>>)
    ELSE IF ltMinus(rounded, two31) THEN Clamped(minInt(2), <<outOfRange>>)
    ELSE Converted(rounded, 2, <<notAnInteger>>)

\* AsInt32 after strconv.ParseFloat
floatToInt32(f, err) ==
    IF err
    THEN IF geq(f, lit21474836e09) THEN Clamped(maxInt(2), <<outOfRange>>)
         ELSE IF leqMinus(f, lit21474836e09) THEN Clamped(minInt(2), <<outOfRange>>)
         ELSE Converted(f, 2, << >>)
    ELSE IF isWhole(f)
    THEN IF cmp(f.ip, float64ExactIntMax) <= 0
         THEN IF gt(f, maxInt32f) THEN Clamped(maxInt(2), <<outOfRange>>)
              ELSE IF ltMinus(f, two31) THEN Clamped(minInt(2), <<outOfRange>>)
              ELSE Converted(f, 2, << >>)
         ELSE IF geq(f, lit21474836e09) THEN Clamped(maxInt(2), <<outOfRange>>)
         ELSE IF leqMinus(f, lit21474836e09) THEN Clamped(minInt(2), <<outOfRange>>)
         ELSE Converted(f, 2, << >>)
    ELSE roundedToInt32(Round(f))

parsedToInt32(r) == floatToInt32(r.f, r.err)

\* AsInt32 from slow_path on
slowPath32(v) == parsedToInt32(ParseFloat(v))

\* t.AsInt64() and t.AsInt32() of a Number token with Value v
orSlowPath64(r, v) == IF r.slow THEN slowPath64(v) ELSE r
orSlowPath32(r, v) == IF r.slow THEN slowPath32(v) ELSE r

AsInt64(v) == orSlowPath64(fastPath(v, 4), v)

AsInt32(v) == orSlowPath32(fastPath(v, 2), v)

\* t.AsInt() where int has the given number of bits
AsInt(v, bits) == IF bits = 32 THEN AsInt32(v) ELSE AsInt64(v)

\* a predicate on decode errors as a value that can be handed to a method
funcOf(P(_)) == [e \in {notAnInteger, outOfRange} |-> P(e)]

\* p.PopDecodeErrorIf(predicate) on the list errs
PopDecodeErrorIf(errs, predicate) ==
    IF Len(errs) > 0 /\ predicate[errs[Len(errs)]]
    THEN SubSeq(errs, Len(errs), Len(errs))
    ELSE errs

----------------------------------------------------------------------------
(* The consumer decodes the Number token it was handed last, and drops      *)
(* decode errors, at most MaxCalls times in all.                            *)

MaxCalls == 3

\* a decoding method is called on the token yielded last, a number or a number
\* with leading zeros, unless an earlier call has panicked
canDecode ==
    /\ lastCall.n < MaxCalls
    /\ ~lastCall.panicked
    /\ out # << >>
    /\ out[Len(out)].Kind \in {Number, ErrorLeadingZerosNotPermitted}

\* the token the decoding methods are called on
lastKind == IF out = << >> THEN -1 ELSE out[Len(out)].Kind

Called(fn, arg, ret) ==
    [fn |-> fn, arg |-> arg, ret |-> ret, before |-> decodeErrors, n |-> lastCall.n + 1,
     kind |-> lastKind, panicked |-> FALSE]

\* panic("jsonstream: AsInt64 called on non-Number token")
Panicked(fn, arg) == [Called(fn, arg, << >>) EXCEPT !.panicked = TRUE]

AsInt64Call ==
    /\ canDecode
    /\ \E v \in {out[Len(out)].Value} :
          IF lastKind # Number
          THEN /\ decodeErrors' = decodeErrors
               /\ lastCall' = Panicked("AsInt64", v)
          ELSE \E r \in {AsInt64(v)} : \E x \in r.rets :
                  /\ decodeErrors' = decodeErrors \o r.errs
                  /\ lastCall' = Called("AsInt64", v, x)
    /\ UNCHANGED <<inp, allowComments, allowTrailingCommas, st, pc, stack, mainI, nt,
                   haltedOnComment, out, errors, raw, stoppedAt, calledAfterStop>>
    /\ UNCHANGED pathVars

AsInt32Call ==
    /\ canDecode
    /\ \E v \in {out[Len(out)].Value} :
          IF lastKind # Number
          THEN /\ decodeErrors' = decodeErrors
               /\ lastCall' = Panicked("AsInt32", v)
          ELSE \E r \in {AsInt32(v)} : \E x \in r.rets :
                  /\ decodeErrors' = decodeErrors \o r.errs
                  /\ lastCall' = Called("AsInt32", v, x)
    /\ UNCHANGED <<inp, allowComments, allowTrailingCommas, st, pc, stack, mainI, nt,
                   haltedOnComment, out, errors, raw, stoppedAt, calledAfterStop>>
    /\ UNCHANGED pathVars

\* math.MaxUint is a constant of the build: int has 32 bits or 64
AsIntCall ==
    /\ canDecode
    /\ \E bits \in {32, 64} :
       \E v \in {out[Len(out)].Value} :
          IF lastKind # Number
          THEN /\ decodeErrors' = decodeErrors
               /\ lastCall' = Panicked("AsInt", v)
          ELSE \E r \in {AsInt(v, bits)} : \E x \in r.rets :
                  /\ decodeErrors' = decodeErrors \o r.errs
                  /\ lastCall' = Called("AsInt", v, x)
    /\ UNCHANGED <<inp, allowComments, allowTrailingCommas, st, pc, stack, mainI, nt,
                   haltedOnComment, out, errors, raw, stoppedAt, calledAfterStop>>
    /\ UNCHANGED pathVars

PopDecodeErrorIfCall ==
    /\ lastCall.n < MaxCalls
    /\ ~lastCall.panicked
    /\ \/ /\ decodeErrors' = PopDecodeErrorIf(decodeErrors, funcOf(IsNonIntegerDecodeError))
          /\ lastCall' = Called("PopDecodeErrorIf", <<notAnInteger>>, << >>)
       \/ /\ decodeErrors' = PopDecodeErrorIf(decodeErrors, funcOf(IsOutOfRangeDecodeError))
          /\ lastCall' = Called("PopDecodeErrorIf", <<outOfRange>>, << >>)
    /\ UNCHANGED <<inp, allowComments, allowTrailingCommas, st, pc, stack, mainI, nt,
                   haltedOnComment, out, errors, raw, stoppedAt, calledAfterStop>>
    /\ UNCHANGED pathVars

NextDec ==
    \/ (~lastCall.panicked /\ Next)
    \/ AsInt64Call
    \/ AsInt32Call
    \/ AsIntCall
    \/ PopDecodeErrorIfCall

MaxZeros == 20
MaxExp == 19

Signs == {<< >>, <<chMinus>>}

\* 1  4  5  9  21
IntHeads == {<<49>>, <<52>>, <<53>>, <<chNine>>, <<50, 49>>}

\* 1  15  1.5  1.0  2.5  9.3
FloatHeads ==
    {<<49>>, <<49, 53>>, <<49, chDot, 53>>, <<49, chDot, chZero>>, <<50, chDot, 53>>,
     <<chNine, chDot, 51>>}

\* the exponent k written out, and k written out after e-
expOf(k) ==
    <<chLowerE>> \o (IF k < 10 THEN <<chZero + k>>
                     ELSE <<chZero + (k \div 10), chZero + (k % 10)>>)
negExpOf(k) == <<chLowerE, chMinus, chZero + k>>

\* the ends of the ranges of int32 and int64 and their neighbours, 1e999
RangeEnds ==
    {<<50,49,52,55,52,56,51,54,52,55>>, <<50,49,52,55,52,56,51,54,52,56>>,
     <<45,50,49,52,55,52,56,51,54,52,56>>, <<45,50,49,52,55,52,56,51,54,52,57>>,
     <<57,50,50,51,51,55,50,48,51,54,56,53,52,55,55,53,56,48,55>>,
     <<57,50,50,51,51,55,50,48,51,54,56,53,52,55,55,53,56,48,56>>,
     <<45,57,50,50,51,51,55,50,48,51,54,56,53,52,55,55,53,56,48,56>>,
     <<45,57,50,50,51,51,55,50,48,51,54,56,53,52,55,55,53,56,48,57>>,
     <<49,101,57,57,57>>}

NumberTexts ==
    {s \o h \o zeros(k) : s \in Signs, h \in IntHeads, k \in 0..MaxZeros}
    \cup {s \o h \o expOf(k) : s \in Signs, h \in FloatHeads, k \in 0..MaxExp}
    \cup {s \o h \o negExpOf(k) : s \in Signs, h \in FloatHeads, k \in 1..2}
    \cup {s \o h : s \in Signs, h \in FloatHeads}
    \cup RangeEnds

\* 007  00  -01  01.5  00e1
LeadingZeroTexts ==
    {<<48, 48, 55>>, <<48, 48>>, <<45, 48, 49>>, <<48, 49, 46, 53>>, <<48, 48, 101, 49>>}

\* 922337203685477580.2e1  and  -922337203685477580.2e1
NearMaxTexts ==
    {s \o <<57,50,50,51,51,55,50,48,51,54,56,53,52,55,55,53,56,48,46,50,101,49>> :
        s \in Signs}

InitDec ==
    /\ InitWith(NumberTexts \cup LeadingZeroTexts \cup NearMaxTexts \cup Seeds)
    /\ ~allowComments
    /\ ~allowTrailingCommas

SpecDec == InitDec /\ [][NextDec]_vars

\* the predicate the last call of PopDecodeErrorIf was given
lastPredicate(e) ==
    IF lastCall.arg = <<notAnInteger>> THEN IsNonIntegerDecodeError(e)
    ELSE IsOutOfRangeDecodeError(e)

\* C18: PopDecodeErrorIf(pred) removes exactly the last decode error, leaving
\* the earlier ones in order, when the list is not empty and pred holds of its
\* last element; otherwise it leaves the list as it was.
C18_PopRemovesLast ==
    lastCall.fn = "PopDecodeErrorIf" =>
        LET b == lastCall.before
        IN  decodeErrors = (IF b # << >> /\ lastPredicate(b[Len(b)])
                            THEN SubSeq(b, 1, Len(b) - 1)
                            ELSE b)

\* v is an optional '-' followed by digits only
isIntegerText(v) ==
    \A i \in 1..Len(v) : IsDigit(v[i]) \/ (i = 1 /\ v[i] = chMinus /\ Len(v) > 1)

\* the number a decimal numeral stands for: its sign, the integer part of its
\* magnitude (eight limbs; the largest such number when it has more than 38
\* digits), whether it is whole
RefValueOf(v) ==
    CHOOSE x \in {[neg |-> d.neg,
                   ip |-> IF Len(d.int) > 38 THEN wideMax ELSE horner(d.int, 1, wideZero),
                   whole |-> fractionOf(d.frac) = 0] : d \in {decimalOf(v)}} : TRUE

\* the whole number x fits the two's complement integers of w limbs
RefFits(x, w) ==
    /\ \A i \in (w + 1)..8 : x.ip[i] = 0
    /\ x.ip[w] < 32768 \/ (x.neg /\ SubSeq(x.ip, 1, w) = minInt(w))

\* x as such an integer
RefInt(x, w) == IF x.neg THEN negate(SubSeq(x.ip, 1, w)) ELSE SubSeq(x.ip, 1, w)

\* C19: for a Number token that is an optional '-' and digits, AsInt64 and
\* AsInt32 return the integer and append no decode error when it fits the
\* type; otherwise they return the type's maximum (minimum for a negative
\* one) and append exactly one out-of-range decode error, however large the
\* value is.
C19_IntegerTextDecoded ==
    (lastCall.fn \in {"AsInt64", "AsInt32"} /\ lastCall.kind = Number
        /\ isIntegerText(lastCall.arg)) =>
        \E w \in {IF lastCall.fn = "AsInt64" THEN 4 ELSE 2} :
        \E x \in {RefValueOf(lastCall.arg)} :
            IF RefFits(x, w)
            THEN lastCall.ret = RefInt(x, w) /\ decodeErrors = lastCall.before
            ELSE /\ lastCall.ret = (IF x.neg THEN minInt(w) ELSE maxInt(w))
                 /\ decodeErrors = Append(lastCall.before, outOfRange)

\* C20: AsInt, AsInt64 and AsInt32 append no decode error for a Number token
\* in float syntax whose value is a whole number in the range of the type,
\* and return that number (1.5e1 gives 15, 1.0 gives 1).
C20_WholeFloatDecoded ==
    (lastCall.fn \in {"AsInt", "AsInt64", "AsInt32"} /\ lastCall.kind = Number
        /\ ~isIntegerText(lastCall.arg)) =>
        \E w \in {Len(lastCall.ret)} :
        \E x \in {RefValueOf(lastCall.arg)} :
            (x.whole /\ RefFits(x, w)) =>
                (lastCall.ret = RefInt(x, w) /\ decodeErrors = lastCall.before)

----------------------------------------------------------------------------
(* C21 .. C30                                                              *)

\* the error of the separator rule
isSeparatorError(t) ==
    t.Kind = ErrorUnexpectedCharacter /\ t.ErrorMsg = "Unexpected character"

\* C30: when a number or literal is directly followed by a byte that is not a
\* separator, the scanner emits one ErrorUnexpectedCharacter for that byte,
\* advances one byte and clears the need-separator flag, so that the byte
\* after it is scanned by the normal rules: in 1xtrue the literal is scanned
\* as a True token (here inside an array, where scanning goes on after an
\* error).
C30_SeparatorErrorClearsFlag ==
    /\ (raw # << >> /\ isSeparatorError(raw[Len(raw)])) => ~st.nextMustBeSep
    /\ (inp = SeparatorExample /\ finished) => \E i \in 1..Len(raw) : raw[i].Kind = True

\* the byte index of the nearest LF before byte p of inp, 0 on the first line
RECURSIVE NearestLFBefore(_)
NearestLFBefore(p) ==
    IF p = 0 THEN 0
    ELSE IF At(inp, p - 1) = chLF THEN p - 1
    ELSE NearestLFBefore(p - 1)

----------------------------------------------------------------------------
(* Block comments: the input opens with slash star and goes on with up to  *)
(* MaxCmtFrags of the bytes that matter to the comment loop.               *)

MaxCmtFrags == 5

\* *  /  LF  1
CmtFrags == {<<chStar>>, <<chSlash>>, <<chLF>>, <<49>>}

CmtInputs ==
    {<<chSlash, chStar>> \o x : x \in InputsOf(CmtFrags, MaxCmtFrags)} \cup Seeds

InitCmt == InitWith(CmtInputs)

SpecCmt == InitCmt /\ [][Next]_vars

\* inp opens a block comment that is closed: the position after its first
\* star slash, or -1
FirstBlockEnd ==
    IF Len(inp) >= 2 /\ At(inp, 0) = chSlash /\ At(inp, 1) = chStar
    THEN RefBlockEnd(inp, 2)
    ELSE -1

\* C27: with AllowComments=true a block comment is recognised up to the first
\* star slash after its slash star, whatever its body: the scanner returns one
\* Comment token whose Value is the input from the slash star through that
\* first star slash.
C27_BlockCommentToFirstClose ==
    (allowComments /\ FirstBlockEnd # -1 /\ raw # << >>) =>
        /\ raw[1].Kind = Comment
        /\ raw[1].Start = 0
        /\ raw[1].End = FirstBlockEnd - 1
        /\ raw[1].Value = Slice(inp, 0, FirstBlockEnd)

\* the number of LF bytes among the first p bytes of inp
RECURSIVE LFsBefore(_)
LFsBefore(p) ==
    IF p = 0 THEN 0
    ELSE LFsBefore(p - 1) + (IF At(inp, p - 1) = chLF THEN 1 ELSE 0)

\* C28: with AllowComments=true, when no error token is yielded, the Line of
\* every yielded token is 1 + the number of LF bytes before its Start; every
\* LF inside a block comment counts.
C28_LineCountsEveryLF ==
    (allowComments /\ finished /\ ErrorsOf(out) = << >>) =>
        \A i \in 1..Len(out) : out[i].Line = 1 + LFsBefore(out[i].Start)

----------------------------------------------------------------------------
(* Unicode escapes: a string of up to MaxEscapes escapes, each a high       *)
(* surrogate, a low surrogate or a letter.                                  *)

MaxEscapes == 3

\* \uD834  \uDD1E  A
EscFrags ==
    {<<chBackslash, chLowerU, 68, 56, 51, 52>>,
     <<chBackslash, chLowerU, 68, 68, 49, 69>>,
     <<chBackslash, chLowerU, 48, 48, 52, 49>>}

EscInputs ==
    {<<chQuote>> \o x \o <<chQuote>> : x \in InputsOf(EscFrags, MaxEscapes)} \cup Seeds

InitEsc == InitWith(EscInputs)

SpecEsc == InitEsc /\ [][Next]_vars

\* the code units the escapes of the string s = "..." stand for, from the
\* escape at position p on
RECURSIVE EscapeUnits(_, _)
EscapeUnits(s, p) ==
    IF p + 5 >= Len(s) THEN << >>
    ELSE <<hexVal(At(s, p + 2)) * 4096 + hexVal(At(s, p + 3)) * 256
             + hexVal(At(s, p + 4)) * 16 + hexVal(At(s, p + 5))>>
         \o EscapeUnits(s, p + 6)

\* the UTF-8 text of a sequence of code units: a high surrogate directly
\* followed by a low one is one code point, any other surrogate is U+FFFD and
\* the unit after it is decoded on its own
RECURSIVE RefDecodeUnits(_)
RefDecodeUnits(us) ==
    IF us = << >> THEN << >>
    ELSE IF /\ Len(us) >= 2
            /\ us[1] >= surr1 /\ us[1] < surr2
            /\ us[2] >= surr2 /\ us[2] < surr3
    THEN EncodeRune((us[1] - surr1) * 1024 + (us[2] - surr2) + 65536)
         \o RefDecodeUnits(Tail(Tail(us)))
    ELSE IF us[1] >= surr1 /\ us[1] < surr3
    THEN <<239, 191, 189>> \o RefDecodeUnits(Tail(us))
    ELSE EncodeRune(us[1]) \o RefDecodeUnits(Tail(us))

\* inp is a string of escapes, at least one
IsEscapeString == Len(inp) >= 8 /\ At(inp, 0) = chQuote

\* C25: in a string a high surrogate escape directly followed by a low
\* surrogate escape decodes to the UTF-8 of the combined code point; a
\* surrogate escape that is not part of such a pair decodes to U+FFFD and does
\* not consume the escape after it; the token is still a String.
C25_SurrogateEscapes ==
    (IsEscapeString /\ raw # << >>) =>
        /\ raw[1].Kind = String
        /\ raw[1].Value = RefDecodeUnits(EscapeUnits(inp, 1))

----------------------------------------------------------------------------
\* what a decoding method called fn, returning w limbs, makes of a Number
\* token of Value v
AsNumber(fn, v, w) ==
    IF fn = "AsInt64" THEN AsInt64(v)
    ELSE IF fn = "AsInt32" THEN AsInt32(v)
    ELSE AsInt(v, IF w = 2 THEN 32 ELSE 64)

\* C26: a token of Kind ErrorLeadingZerosNotPermitted can be treated as a
\* Number: AsInt, AsInt32 and AsInt64 return on it the value, and record the
\* decode errors, that they do on a Number token of the same Value.
C26_LeadingZerosDecodedAsNumber ==
    (lastCall.fn \in {"AsInt", "AsInt64", "AsInt32"}
        /\ lastCall.kind = ErrorLeadingZerosNotPermitted) =>
        /\ ~lastCall.panicked
        /\ \E r \in {AsNumber(lastCall.fn, lastCall.arg, Len(lastCall.ret))} :
              /\ lastCall.ret \in r.rets
              /\ decodeErrors = lastCall.before \o r.errs

----------------------------------------------------------------------------
(* Paths (path.go).  A *pathNode is modelled by the chain of nodes it ends, *)
(* root first: nil is the empty sequence, n.previous is the chain without   *)
(* its last node.  Nodes are never written to after newPathNode has made    *)
(* them, and newPathNode takes every node from a fresh slice (its pool      *)
(* parameter is rebound to the new slice, the caller's pool stays nil), so  *)
(* chains are values.                                                       *)

notAnIndex == -2

\* n := &(*pool)[0]; n.previous = previous; n.index = index; n.key = key
newPathNode(previous, index, key) == Append(previous, [index |-> index, key |-> key])

addIndex(p, index) == newPathNode(p, index, << >>)

addKeyLookup(p, key) == newPathNode(p, notAnIndex, key)

\* p.previous and *p of a non-nil p
previousOf(p) == SubSeq(p, 1, Len(p) - 1)

endOf(p) == p[Len(p)]

\* string(t.Key)
keyString(k) == IF k = Nil THEN << >> ELSE k

\* the path WithPaths pairs the token t with, currentPath being cur
pathFor(cur, t) ==
    IF cur # << >>
    THEN IF endOf(cur).index = notAnIndex
         THEN newPathNode(previousOf(cur), notAnIndex, keyString(t.Key))
         ELSE newPathNode(previousOf(cur), endOf(cur).index + 1, << >>)
    ELSE cur

\* afterYield with the first element of an array at index 1
afterYield_indexFromOne(cur, t) ==
    IF t.Kind = ArrayStart THEN addIndex(cur, 0)
    ELSE IF t.Kind = ObjectStart THEN addKeyLookup(cur, << >>)
    ELSE cur

\* the switch on t.Kind after the yield
afterYield(cur, t) ==
    IF t.Kind = ArrayStart THEN addIndex(cur, -1)
    ELSE IF t.Kind = ObjectStart THEN addKeyLookup(cur, << >>)
    ELSE cur

\* isEndKind taking an ObjectEnd for a value
isEndKind_onlyArrayEnd(t) == t.Kind = ArrayEnd

\* t.Kind == ArrayEnd || t.Kind == ObjectEnd
isEndKind(t) == t.Kind = ArrayEnd \/ t.Kind = ObjectEnd

\* one iteration of the loop of WithPaths, over the next token Tokenize has
\* yielded; the consumer of WithPaths gives for a token the answer that
\* Tokenize's yield returned for it
WithPathsStep ==
    /\ ~wp.returned
    /\ ~wp.panicked
    /\ wp.consumed < Len(out)
    /\ \E i \in {wp.consumed + 1} : \E t \in {out[i]} :
          IF isEndKind(t)
          THEN /\ stoppedAt # i
               /\ wp' = IF wp.currentPath = << >>
                        THEN [wp EXCEPT !.panicked = TRUE]
                        ELSE [wp EXCEPT !.consumed = i,
                                        !.currentPath = previousOf(wp.currentPath)]
               /\ paired' = paired
          ELSE \E cur \in {pathFor(wp.currentPath, t)} :
                 /\ paired' = Append(paired, [Token |-> t, Path |-> cur])
                 /\ wp' = IF stoppedAt = i
                          THEN [wp EXCEPT !.consumed = i, !.currentPath = cur,
                                          !.returned = TRUE]
                          ELSE [wp EXCEPT !.consumed = i,
                                          !.currentPath = afterYield(cur, t)]
    /\ UNCHANGED <<inp, allowComments, allowTrailingCommas, st, pc, stack, mainI, nt,
                   haltedOnComment, out, errors, raw, stoppedAt, calledAfterStop,
                   decodeErrors, lastCall, elems, path, slice, rendered, pathCalls>>

\* Tokenize runs on when the loop body of WithPaths has returned to it
NextPath ==
    \/ (wp.consumed = Len(out) /\ Next)
    \/ WithPathsStep

MaxPathFrags == 5

\* [  ]  {  }  ,  "a":  0
PathFrags ==
    {<<chLBracket>>, <<chRBracket>>, <<chLBrace>>, <<chRBrace>>, <<chComma>>,
     <<chQuote, chLowerA, chQuote, chColon>>, <<chZero>>}

\* {"a":{"b":{"c":1}}}
PathExample ==
    <<chLBrace, chQuote, chLowerA, chQuote, chColon,
      chLBrace, chQuote, chLowerB, chQuote, chColon,
      chLBrace, chQuote, 99, chQuote, chColon, 49, chRBrace, chRBrace, chRBrace>>

PathInputs == InputsOf(PathFrags, MaxPathFrags) \cup Seeds \cup {PathExample}

InitPath == InitWith(PathInputs) /\ ~allowComments

SpecPath == InitPath /\ [][NextPath]_vars

\* the paths of the structural locations of the tokens toks[i..] that are not
\* closing tokens; open are the containers open before toks[i], innermost
\* last, each with its own path and the number of its values seen so far
RECURSIVE RefPaths(_, _, _)
RefPaths(toks, i, open) ==
    IF i > Len(toks) THEN << >>
    ELSE IF isClose(toks[i]) THEN RefPaths(toks, i + 1, SubSeq(open, 1, Len(open) - 1))
    ELSE
      LET top == open[Len(open)]
          loc == IF open = << >> THEN << >>
                 ELSE IF top.array
                 THEN Append(top.path, [index |-> top.n, key |-> << >>])
                 ELSE Append(top.path, [index |-> notAnIndex, key |-> toks[i].Key])
          counted == IF open = << >> THEN open
                     ELSE [open EXCEPT ![Len(open)].n = @ + 1]
          inner == IF isStart(toks[i])
                   THEN Append(counted, [array |-> toks[i].Kind = ArrayStart, n |-> 0,
                                         path |-> loc])
                   ELSE counted
      IN  <<loc>> \o RefPaths(toks, i + 1, inner)

\* the tokens Tokenize has yielded that WithPaths has ranged over
ranged == SubSeq(out, 1, wp.consumed)

\* C21: for valid JSON without comments WithPaths(Tokenize(input)) pairs each
\* token it yields with the path of the token's structural location: the empty
\* path for the top-level token, otherwise the path of the parent container
\* extended by the member key (object) or by the zero-based index that counts
\* the preceding sibling values (array).
C21_PathsAreLocations ==
    IsValidJSON(inp, FALSE, FALSE) =>
        [k \in 1..Len(paired) |-> paired[k].Path] = RefPaths(ranged, 1, << >>)

\* the Number 1 of {"a":{"b":{"c":1}}} was paired with ["a"]["b"]["c"]
C21_Witness ==
    /\ inp = PathExample
    /\ finished
    /\ wp.consumed = Len(out)
    /\ \E k \in 1..Len(paired) :
          /\ paired[k].Token.Kind = Number
          /\ paired[k].Path = <<[index |-> notAnIndex, key |-> <<chLowerA>>],
                                [index |-> notAnIndex, key |-> <<chLowerB>>],
                                [index |-> notAnIndex, key |-> <<99>>]>>

\* the tokens of toks that are not closing tokens, in order
RECURSIVE NonEnds(_)
NonEnds(toks) ==
    IF toks = << >> THEN << >>
    ELSE IF isClose(Head(toks)) THEN NonEnds(Tail(toks))
    ELSE <<Head(toks)>> \o NonEnds(Tail(toks))

\* C22: WithPaths yields exactly the tokens of its input sequence whose Kind is
\* neither ArrayEnd nor ObjectEnd, each once and in order; closing tokens are
\* never yielded.
C22_ClosingTokensDropped ==
    /\ ~wp.panicked
    /\ [k \in 1..Len(paired) |-> paired[k].Token] = NonEnds(ranged)

\* WithPaths has ranged over all tokens of a complete iteration that had
\* closing tokens in it, inside a nested container too, and errors
C22_Witness ==
    /\ finished
    /\ wp.consumed = Len(out)
    /\ Len(paired) + 2 <= Len(out)
    /\ ErrorsOf(out) # << >>

----------------------------------------------------------------------------
(* SliceToPath, PathToSlice and Path.String (path.go).  An element of a    *)
(* []any slice is an int or a string; texts are byte sequences.            *)

intElem(i) == [isInt |-> TRUE, int |-> i, str |-> << >>]

strElem(s) == [isInt |-> FALSE, int |-> 0, str |-> s]

\* the loop of SliceToPath going through the elements from the first to the last
RECURSIVE sliceToPathLoop_forward(_, _, _)
sliceToPathLoop_forward(es, i, root) ==
    IF i < 1 THEN root
    ELSE sliceToPathLoop_forward(es, i - 1,
            IF es[Len(es) + 1 - i].isInt
            THEN newPathNode(root, es[Len(es) + 1 - i].int, << >>)
            ELSE newPathNode(root, notAnIndex, es[Len(es) + 1 - i].str))

\* the loop of SliceToPath, for i := len(elems) - 1; i >= 0; i--, over the
\* elements es[i] counted from 1
RECURSIVE sliceToPathLoop(_, _, _)
sliceToPathLoop(es, i, root) ==
    IF i < 1 THEN root
    ELSE sliceToPathLoop(es, i - 1,
            IF es[i].isInt
            THEN newPathNode(root, es[i].int, << >>)
            ELSE newPathNode(root, notAnIndex, es[i].str))

SliceToPath(es) == sliceToPathLoop(es, Len(es), << >>)

\* the first loop of PathToSlice: from p.end along previous
RECURSIVE collect(_)
collect(p) ==
    IF p = << >> THEN << >>
    ELSE <<IF endOf(p).index = notAnIndex
           THEN strElem(endOf(p).key)
           ELSE intElem(endOf(p).index)>> \o collect(previousOf(p))

\* the second loop of PathToSlice: result[i], result[j] = result[j], result[i]
reversed(s) == [k \in 1..Len(s) |-> s[Len(s) + 1 - k]]

PathToSlice(p) == reversed(collect(p))

\* fmt's %v of an int
RECURSIVE digitsOf(_)
digitsOf(n) ==
    IF n < 10 THEN <<chZero + n>>
    ELSE Append(digitsOf(n \div 10), chZero + (n % 10))

decimalText(n) == IF n < 0 THEN <<chMinus>> \o digitsOf(-n) ELSE digitsOf(n)

\* json.Marshal of a string of printable ASCII: quoted, with the quote and the
\* backslash escaped and the characters  <  >  &  written as \u003c, \u003e
\* and \u0026
RECURSIVE marshalBytes(_)
marshalBytes(s) ==
    IF s = << >> THEN << >>
    ELSE (IF Head(s) \in {chQuote, chBackslash} THEN <<chBackslash, Head(s)>>
          ELSE IF Head(s) = 60 THEN <<chBackslash, chLowerU, 48, 48, 51, 99>>
          ELSE IF Head(s) = 62 THEN <<chBackslash, chLowerU, 48, 48, 51, 101>>
          ELSE IF Head(s) = 38 THEN <<chBackslash, chLowerU, 48, 48, 50, 54>>
          ELSE <<Head(s)>>)
         \o marshalBytes(Tail(s))

Marshal(s) == <<chQuote>> \o marshalBytes(s) \o <<chQuote>>

\* fmt.Sprintf("[%v]", ...) of one node
bracketed(n) ==
    <<chLBracket>>
    \o (IF n.index = notAnIndex THEN Marshal(n.key) ELSE decimalText(n.index))
    \o <<chRBracket>>

\* rec of Path.String: rec(p.previous), then the node itself
RECURSIVE PathString(_)
PathString(p) ==
    IF p = << >> THEN << >>
    ELSE PathString(previousOf(p)) \o bracketed(endOf(p))

\* the path functions leave the tokenizer and WithPaths alone
tokenizerIdle ==
    UNCHANGED <<inp, allowComments, allowTrailingCommas, st, pc, stack, mainI, nt,
                haltedOnComment, out, errors, raw, stoppedAt, calledAfterStop,
                decodeErrors, lastCall, wp, paired, elems>>

\* path := SliceToPath(elems)
SliceToPathCall ==
    /\ pathCalls = {}
    /\ path' = SliceToPath(elems)
    /\ pathCalls' = {"SliceToPath"}
    /\ UNCHANGED <<slice, rendered>>
    /\ tokenizerIdle

\* slice := PathToSlice(path)
PathToSliceCall ==
    /\ "SliceToPath" \in pathCalls
    /\ "PathToSlice" \notin pathCalls
    /\ slice' = PathToSlice(path)
    /\ pathCalls' = pathCalls \cup {"PathToSlice"}
    /\ UNCHANGED <<path, rendered>>
    /\ tokenizerIdle

\* rendered := path.String()
StringCall ==
    /\ "SliceToPath" \in pathCalls
    /\ "String" \notin pathCalls
    /\ rendered' = PathString(path)
    /\ pathCalls' = pathCalls \cup {"String"}
    /\ UNCHANGED <<path, slice>>
    /\ tokenizerIdle

NextSlice ==
    \/ SliceToPathCall
    \/ PathToSliceCall
    \/ StringCall

MaxElems == 3

\* 0  1  15  "foo"  "a\"<"
ElemValues ==
    {intElem(0), intElem(1), intElem(15), strElem(<<102, 111, 111>>),
     strElem(<<chLowerA, chQuote, 60>>)}

Slices == UNION {[1..k -> ElemValues] : k \in 0..MaxElems}

InitSlice == InitOf({<< >>}, Slices) /\ ~allowComments /\ ~allowTrailingCommas

SpecSlice == InitSlice /\ [][NextSlice]_vars

\* C23: SliceToPath and PathToSlice are inverse to each other:
\* PathToSlice(SliceToPath(elems)) = elems.
C23_SliceRoundTrip ==
    "PathToSlice" \in pathCalls => slice = elems

\* the bracket forms of the elements of es, the last element first
RECURSIVE RefReverseBrackets(_)
RefReverseBrackets(es) ==
    IF es = << >> THEN << >>
    ELSE (IF es[Len(es)].isInt
          THEN <<chLBracket>> \o decimalText(es[Len(es)].int) \o <<chRBracket>>
          ELSE <<chLBracket>> \o Marshal(es[Len(es)].str) \o <<chRBracket>>)
         \o RefReverseBrackets(SubSeq(es, 1, Len(es) - 1))

----------------------------------------------------------------------------
(* C31 .. C40                                                              *)
(* Numerals: inputs of up to MaxNumFrags of the bytes a numeral is made    *)
(* of and the comma, at top level and inside an array.                     *)

MaxNumFrags == 5

\* 0  1  -  .  e  +  ,
NumFrags ==
    {<<chZero>>, <<49>>, <<chMinus>>, <<chDot>>, <<chLowerE>>, <<chPlus>>, <<chComma>>}

NumInputs ==
    {p \o x : p \in {<< >>, <<chLBracket>>}, x \in InputsOf(NumFrags, MaxNumFrags)}
    \cup Seeds

InitNum == InitWith(NumInputs) /\ ~allowComments

SpecNum == InitNum /\ [][Next]_vars

\* the position after the longest  -? digits (. digits)? (e [+-]? digits)?
\* that starts at byte p of s, or -1
RefNumeralEnd(s, p) ==
    LET q == IF At(s, p) = chMinus THEN p + 1 ELSE p
    IN  IF q >= Len(s) \/ ~IsDigit(At(s, q)) THEN -1
        ELSE RefFrac(s, RefDigits(s, q))

\* the integer part of the numeral at byte p of s starts with 0 and a digit
RefLeadingZeros(s, p) ==
    LET q == IF At(s, p) = chMinus THEN p + 1 ELSE p
    IN  q + 1 < Len(s) /\ At(s, q) = chZero /\ IsDigit(At(s, q + 1))

isNumeral(t) == t.Kind \in {Number, ErrorLeadingZerosNotPermitted}

\* C31: a numeral is yielded with Kind ErrorLeadingZerosNotPermitted exactly
\* when its integer part starts with 0 directly followed by a digit; its
\* Value, Start and End then cover the whole numeral, as they do for a Number,
\* and scanning goes on behind the numeral as it does behind a Number.
C31_LeadingZeros ==
    /\ \A i \in 1..Len(out) :
          isNumeral(out[i]) =>
              /\ out[i].End + 1 = RefNumeralEnd(inp, out[i].Start)
              /\ out[i].Value = Slice(inp, out[i].Start, out[i].End + 1)
              /\ (out[i].Kind = ErrorLeadingZerosNotPermitted)
                    <=> RefLeadingZeros(inp, out[i].Start)
    /\ (raw # << >> /\ isNumeral(raw[Len(raw)])) =>
          (st.pos = raw[Len(raw)].End + 1 /\ st.nextMustBeSep)

\* a numeral with leading zeros and, after it, a Number were yielded inside an
\* array
C31_Witness ==
    \E i \in 1..Len(out) : \E j \in (i + 1)..Len(out) :
        /\ out[i].Kind = ErrorLeadingZerosNotPermitted
        /\ Len(out[i].Value) >= 3
        /\ out[j].Kind = Number

\* the input is the beginning of a numeral and ends where a digit is required:
\* after the '-', after the '.', after the e or after the sign of the exponent
RefDigitRequiredAtEnd(s) ==
    LET n == Len(s)
        q0 == IF n > 0 /\ At(s, 0) = chMinus THEN 1 ELSE 0
        q1 == RefDigits(s, q0)
        q2 == IF q1 < n /\ At(s, q1) = chDot THEN RefDigits(s, q1 + 1) ELSE q1
    IN  IF n = 0 THEN FALSE
        ELSE IF q0 = n THEN TRUE
        ELSE IF q1 = q0 THEN FALSE
        ELSE IF q1 < n /\ At(s, q1) = chDot /\ q1 + 1 = n THEN TRUE
        ELSE IF q1 < n /\ At(s, q1) = chDot /\ q2 = q1 + 1 THEN FALSE
        ELSE IF q2 < n /\ At(s, q2) \in {chLowerE, chUpperE}
        THEN \/ q2 + 1 = n
             \/ (At(s, q2 + 1) \in {chPlus, chMinus} /\ q2 + 2 = n)
        ELSE FALSE

\* C32: when the input ends inside a number where a digit is required (after
\* the '-', after the '.', after the e or E, after the sign of the exponent),
\* the scanner returns a token of Kind ErrorUnexpectedEOF.
C32_EOFInsideNumber ==
    (RefDigitRequiredAtEnd(inp) /\ raw # << >>) => raw[1].Kind = ErrorUnexpectedEOF

----------------------------------------------------------------------------
\* the bytes at p of s are a well-formed UTF-8 encoding of a code point
\* (utf8.DecodeRune gives (RuneError, 1) for those that are not)
RefWellFormed(s, p) ==
    \E d \in {DecodeRune(s, p)} : ~(d.r = RuneError /\ d.sz <= 1)

\* how the body of a string goes on from byte p of s: "string" when the closing
\* quote is reached over well-formed characters that are not control
\* characters, "utf8" when bytes that are not well-formed come first, else what
\* else comes first
RECURSIVE RefStringBody(_, _)
RefStringBody(s, p) ==
    IF p >= Len(s) THEN "eof"
    ELSE IF At(s, p) = chQuote THEN "string"
    ELSE IF At(s, p) = chBackslash THEN "escape"
    ELSE IF ~RefWellFormed(s, p) THEN "utf8"
    ELSE LET d == DecodeRune(s, p)
         IN  IF IsControl(d.r) /\ d.r # 127 THEN "control"
             ELSE RefStringBody(s, p + d.sz)

\* inp is a string without escapes up to its end or its first flaw
IsPlainString == Len(inp) >= 1 /\ At(inp, 0) = chQuote

\* C33: inside a string ErrorUTF8DecodingErrorInsideString is returned if and
\* only if the bytes at the cursor are not a well-formed UTF-8 encoding of a
\* code point; every well-formed encoding of a code point that is not a control
\* character, the literal U+FFFD (EF BF BD) included, is accepted and becomes
\* part of the string's value.
C33_UTF8ErrorOnlyForMalformed ==
    (IsPlainString /\ raw # << >> /\ RefStringBody(inp, 1) # "escape") =>
        /\ (raw[1].Kind = ErrorUTF8DecodingErrorInsideString)
              <=> (RefStringBody(inp, 1) = "utf8")
        /\ RefStringBody(inp, 1) = "string" => raw[1].Kind = String

----------------------------------------------------------------------------
\* the sequence a is a subsequence of b: its elements occur in b in their order
RECURSIVE IsSubsequence(_, _)
IsSubsequence(a, b) ==
    IF a = << >> THEN TRUE
    ELSE IF b = << >> THEN FALSE
    ELSE IF Head(a) = Head(b) THEN IsSubsequence(Tail(a), Tail(b))
    ELSE IsSubsequence(a, Tail(b))

\* C34: every error token yielded to the consumer (scanner errors,
\* ErrorLeadingZerosNotPermitted, and the structural errors of the top level,
\* of arrays and of objects) has been appended to Parser.errors by the time it
\* is yielded, in the order of the yields.
C34_YieldedErrorsAccumulated == IsSubsequence(ErrorsOf(out), errors)

----------------------------------------------------------------------------
\* C35: for a Number token in float syntax whose parsed value f is whole with
\* |f| > 2^53, AsInt64 returns the clamped extreme (math.MaxInt64 for f > 0,
\* math.MinInt64 for f < 0) and appends an out-of-range decode error, whether
\* or not the written value fits int64 (1e17, 922337203685477580.2e1).
C35_BeyondExactRangeClamped ==
    (lastCall.fn = "AsInt64" /\ lastCall.kind = Number /\ ~isIntegerText(lastCall.arg)) =>
        \E r \in {ParseFloat(lastCall.arg)} :
            (isWhole(r.f) /\ cmp(r.f.ip, float64ExactIntMax) > 0) =>
                /\ lastCall.ret = (IF r.f.neg THEN minInt(4) ELSE maxInt(4))
                /\ decodeErrors = Append(lastCall.before, outOfRange)

----------------------------------------------------------------------------
\* C36: across the tokens yielded in one iteration (value, comment and error
\* tokens alike) Line never decreases from one token to the next.
C36_LineNeverDecreases ==
    \A i \in 1..(Len(out) - 1) : out[i].Line <= out[i + 1].Line

----------------------------------------------------------------------------
\* an error token made by the scanner's addErr
isScannerError(t) == isErrorToken(t) /\ t.Kind # ErrorLeadingZerosNotPermitted

\* the consumer was handed a token with the Kind and ErrorMsg of t
Delivered(t) ==
    \E j \in 1..Len(out) : out[j].Kind = t.Kind /\ out[j].ErrorMsg = t.ErrorMsg

\* C37: a scanner error met inside an array or object is delivered to the
\* consumer as an error token with the Kind and ErrorMsg the scanner produced,
\* as it is when the same error is met at top level.
C37_ScannerErrorsDeliveredAsIs ==
    (raw # << >> /\ isScannerError(raw[Len(raw)]) /\ ~stopped /\ ~haltedOnComment
        /\ (stack # << >> \/ Len(raw) = 1)) =>
        Delivered(raw[Len(raw)])

----------------------------------------------------------------------------
\* C38: an ErrorTrailingComma token is yielded only for a comma of the input
\* directly before the closing bracket: its Line and Col are those of a ','
\* that the scanner has read, and none is yielded for a container without a
\* comma such as [1 2].
C38_TrailingCommaIsAComma ==
    \A i \in 1..Len(out) :
        out[i].Kind = ErrorTrailingComma =>
            \E j \in 1..Len(raw) :
                /\ raw[j].Kind = comma
                /\ raw[j].Line = out[i].Line
                /\ raw[j].Col = out[i].Col

----------------------------------------------------------------------------
\* C39: every ErrorUnexpectedToken and ErrorUnexpectedComma token the driver
\* yields carries the Line and Col of the offending scanner token, the token
\* just read where a key, ':', value, ',' or closing bracket was expected (for
\* a bad token in an object's value position: of that token, not of the ':').
C39_ErrorsAtOffendingToken ==
    [][\A i \in (Len(out) + 1)..Len(out') :
          out'[i].Kind \in {ErrorUnexpectedToken, ErrorUnexpectedComma} =>
              /\ Len(raw') = Len(raw) + 1
              /\ out'[i].Line = raw'[Len(raw')].Line
              /\ out'[i].Col = raw'[Len(raw')].Col]_vars

MaxPathCmtFrags == 4

\* [/**/0,/**/0]
CommentedArray ==
    <<chLBracket, chSlash, chStar, chStar, chSlash, chZero, chComma,
      chSlash, chStar, chStar, chSlash, chZero, chRBracket>>

\* {/**/"a":0}
CommentedObject ==
    <<chLBrace, chSlash, chStar, chStar, chSlash,
      chQuote, chLowerA, chQuote, chColon, chZero, chRBrace>>

\* the fragments of PathFrags and the block comment /**/
PathCmtInputs ==
    InputsOf(PathFrags \cup {<<chSlash, chStar, chStar, chSlash>>}, MaxPathCmtFrags)
        \cup Seeds \cup {CommentedArray, CommentedObject}

InitPathCmt == InitWith(PathCmtInputs) /\ allowComments

\* WithPaths over Tokenize with AllowComments set
SpecPathCmt == InitPathCmt /\ [][NextPath]_vars

\* the members of the sequence toks that are not Comment tokens, in order
RECURSIVE NoComments(_)
NoComments(toks) ==
    IF toks = << >> THEN << >>
    ELSE IF Head(toks).Kind = Comment THEN NoComments(Tail(toks))
    ELSE <<Head(toks)>> \o NoComments(Tail(toks))

\* the paths paired with the tokens of ps that are not Comment tokens, in order
RECURSIVE PathsOfNonComments(_)
PathsOfNonComments(ps) ==
    IF ps = << >> THEN << >>
    ELSE IF Head(ps).Token.Kind = Comment THEN PathsOfNonComments(Tail(ps))
    ELSE <<Head(ps).Path>> \o PathsOfNonComments(Tail(ps))

\* C40: with AllowComments set, Comment tokens do not affect the paths of the
\* value tokens: for JSON that is valid but for its comments, the path that
\* WithPaths pairs with each token that is not a Comment is the path of that
\* token's structural location in the token sequence without the Comment
\* tokens, which is what the input yields with its comments removed; a comment
\* before an array element does not increase the element's index.
C40_CommentsDoNotAffectPaths ==
    (allowComments /\ IsValidJSON(inp, FALSE, TRUE)) =>
        PathsOfNonComments(paired) = RefPaths(NoComments(ranged), 1, << >>)

====
